---- MODULE Spec2Model ----
(***************************************************************************)
(* A model of the ranking-page scrapers of sijian2001/scraper:             *)
(*   stop_high_scraper.py   StopHighScraper (JSON-in-script + HTML table)  *)
(*   stop_low_scraper.py    StopLowScraper  (HTML table)                   *)
(*   yahoo_finance_scraper.py YahooFinanceJapanScraper (HTML table)        *)
(*                                                                         *)
(* Representation.                                                         *)
(*  - A Python str is a sequence of atoms.  An atom is one character       *)
(*    ("1", ".", "T", "a") or a literal the regular expressions of the     *)
(*    code treat as a unit ("code=", "/quote/", "/detail/").               *)
(*  - The script part of a page is a sequence of lexemes (PageTokens):     *)
(*    "W" is `window.mainRankingList =`, "Q" is `"mainRankingList":`,      *)
(*    "{" "}" "[" "]" ";" are themselves, "R" "rr" "sp" "k" are the keys   *)
(*    `"results":` `"rankingResult":` `"stopPrice":` `"other":`, the       *)
(*    field lexemes are a key with its string value, "s" is a scalar and   *)
(*    "x" is any other text.  Commas and white space are not lexemes.      *)
(*  - A Python dict is a function from its keys; dict.get is Get.          *)
(*  - A call that may raise returns [raised, exc, value].                  *)
(***************************************************************************)
EXTENDS Integers, Sequences, FiniteSets, TLC

(***************************************************************************)
(* Bounds of the model.                                                    *)
(***************************************************************************)
MaxPages == 3
MaxElems == 2
MaxRows == 2

(***************************************************************************)
(* Python helpers.                                                         *)
(***************************************************************************)
Get(d, k, default) == IF k \in DOMAIN d THEN d[k] ELSE default

Return(v) == [raised |-> FALSE, exc |-> [type |-> "none", msg |-> "none"], value |-> v]

Raise(type, msg) == [raised |-> TRUE, exc |-> [type |-> type, msg |-> msg], value |-> <<>>]

RECURSIVE Concat(_)
Concat(ss) == IF ss = <<>> THEN <<>> ELSE Head(ss) \o Concat(Tail(ss))

\* The exception classes of stop_high_scraper.py and of requests, with
\* their base classes (isinstance).
RequestExceptions == {"ConnectionError", "Timeout", "HTTPError"}

ScraperErrors == {"ValidationError", "NetworkError", "DataParsingError"}

IsInstance(type, class) ==
    \/ type = class
    \/ class = "Exception"
    \/ class = "RequestException" /\ type \in RequestExceptions
    \/ class = "StopHighScraperError" /\ type \in ScraperErrors

(***************************************************************************)
(* json.loads on the captured lexemes.                                     *)
(***************************************************************************)
FieldTokens == {"c1", "c2", "n1", "n2", "m1", "p1", "rk", "cp", "cr", "pv"}

KeyTokens == {"R", "rr", "sp", "k", "Q"}

FieldKey(tok) ==
    CASE tok \in {"c1", "c2"} -> "stockCode"
      [] tok \in {"n1", "n2"} -> "stockName"
      [] tok = "m1" -> "marketName"
      [] tok = "p1" -> "savePrice"
      [] tok = "rk" -> "rank"
      [] tok = "cp" -> "changePrice"
      [] tok = "cr" -> "changePriceRate"
      [] tok = "pv" -> "previousClose"

FieldValue(tok) ==
    CASE tok = "c1" -> <<"1", "2", "3", "4">>
      [] tok = "c2" -> <<"5", "6", "7", "8">>
      [] tok = "n1" -> <<"A">>
      [] tok = "n2" -> <<"B">>
      [] tok = "m1" -> <<"T", "S", "E">>
      [] tok = "p1" -> <<"1", "0", "0">>
      [] tok = "rk" -> <<"9">>
      [] tok = "cp" -> <<"+", "5">>
      [] tok = "cr" -> <<"+", "5", "%">>
      [] tok = "pv" -> <<"9", "5">>

KeyName(tok) ==
    CASE tok = "R" -> "results"
      [] tok = "rr" -> "rankingResult"
      [] tok = "sp" -> "stopPrice"
      [] tok = "k" -> "other"
      [] tok = "Q" -> "mainRankingList"

JString(s) == [type |-> "string", s |-> s]

JObject(items) == [type |-> "object", items |-> items]

JArray(elems) == [type |-> "array", elems |-> elems]

JScalar == [type |-> "scalar"]

ParseFail == [ok |-> FALSE, next |-> 0, val |-> JScalar]

EmptyDict == [key \in {} |-> JScalar]

RECURSIVE ParseValue(_, _)
RECURSIVE ParseMembers(_, _, _)
RECURSIVE ParseElems(_, _, _)

\* One JSON value starting at lexeme i; next is the position after it.
ParseValue(t, i) ==
    IF i > Len(t) THEN ParseFail
    ELSE CASE t[i] = "{" -> ParseMembers(t, i + 1, EmptyDict)
           [] t[i] = "[" -> ParseElems(t, i + 1, <<>>)
           [] t[i] = "s" -> [ok |-> TRUE, next |-> i + 1, val |-> JScalar]
           [] OTHER -> ParseFail

\* The members of an object up to its closing brace; a repeated key keeps
\* the last value, as json.loads does.
ParseMembers(t, i, acc) ==
    IF i > Len(t) THEN ParseFail
    ELSE CASE t[i] = "}" -> [ok |-> TRUE, next |-> i + 1, val |-> JObject(acc)]
           [] t[i] \in FieldTokens ->
                ParseMembers(t, i + 1,
                    (FieldKey(t[i]) :> JString(FieldValue(t[i]))) @@ acc)
           [] t[i] \in KeyTokens ->
                LET v == ParseValue(t, i + 1) IN
                IF v.ok
                THEN ParseMembers(t, v.next, (KeyName(t[i]) :> v.val) @@ acc)
                ELSE ParseFail
           [] OTHER -> ParseFail

ParseElems(t, i, acc) ==
    IF i > Len(t) THEN ParseFail
    ELSE IF t[i] = "]" THEN [ok |-> TRUE, next |-> i + 1, val |-> JArray(acc)]
    ELSE LET v == ParseValue(t, i) IN
         IF v.ok THEN ParseElems(t, v.next, Append(acc, v.val)) ELSE ParseFail

\* json.loads(text): the whole text is one JSON value, else JSONDecodeError.
json_loads(t) ==
    LET v == ParseValue(t, 1) IN
    IF v.ok /\ v.next = Len(t) + 1 THEN Return(v.val)
    ELSE Raise("JSONDecodeError", "json")

(***************************************************************************)
(* StopHighScraper: the JSON path.                                         *)
(***************************************************************************)
NoMatch == [found |-> FALSE, group1 |-> <<>>]

\* re.search(r"window\.mainRankingList\s*=\s*({.*?});", text, re.DOTALL):
\* the leftmost "W" directly followed by "{", and from there the shortest
\* span that ends with "}" directly followed by ";".
search_window_pattern(t) ==
    LET Ends(i) == {j \in (i + 2)..(Len(t) - 1) : t[j] = "}" /\ t[j + 1] = ";"}
        Starts == {i \in 1..(Len(t) - 1) :
                      t[i] = "W" /\ t[i + 1] = "{" /\ Ends(i) # {}}
    IN  IF Starts = {} THEN NoMatch
        ELSE LET i == CHOOSE a \in Starts : \A b \in Starts : a <= b
                 j == CHOOSE a \in Ends(i) : \A b \in Ends(i) : a <= b
             IN  [found |-> TRUE, group1 |-> SubSeq(t, i + 1, j)]

\* re.search(r'"mainRankingList"\s*:\s*({.*?})', text, re.DOTALL): the
\* leftmost "Q" directly followed by "{", up to the first "}" after it.
search_quoted_pattern(t) ==
    LET Ends(i) == {j \in (i + 2)..Len(t) : t[j] = "}"}
        Starts == {i \in 1..(Len(t) - 1) :
                      t[i] = "Q" /\ t[i + 1] = "{" /\ Ends(i) # {}}
    IN  IF Starts = {} THEN NoMatch
        ELSE LET i == CHOOSE a \in Starts : \A b \in Starts : a <= b
                 j == CHOOSE a \in Ends(i) : \A b \in Ends(i) : a <= b
             IN  [found |-> TRUE, group1 |-> SubSeq(t, i + 1, j)]

Origin == <<"https://finance.yahoo.co.jp">>

\* bool(v) of a JSON value; the scalar "s" is a non-zero number.
Truthy(v) ==
    CASE v.type = "object" -> DOMAIN v.items # {}
      [] v.type = "array" -> v.elems # <<>>
      [] v.type = "string" -> v.s # <<>>
      [] OTHER -> TRUE

\* The loop body merging the price-change keys into every record, whether
\* stopPrice is there or not.
ranking_element_merge_always(result, i) ==
    IF result.type # "object" THEN Raise("AttributeError", "get")
    ELSE
      LET r == result.items
          str(k) == Get(r, k, JString(<<>>)).s
          stock_data == [rank |-> i,
                         stock_code |-> str("stockCode"),
                         stock_name |-> str("stockName"),
                         market |-> str("marketName"),
                         current_price |-> str("savePrice"),
                         yahoo_url |-> Origin \o <<"/quote/">> \o str("stockCode")]
          ranking_result == Get(r, "rankingResult", JObject(EmptyDict))
      IN  IF ranking_result.type # "object" THEN Raise("AttributeError", "get")
          ELSE
            LET stop_price == Get(ranking_result.items, "stopPrice", JObject(EmptyDict))
            IN  IF stop_price.type # "object" THEN Raise("AttributeError", "get")
                ELSE
                  LET sp(k) == Get(stop_price.items, k, JString(<<>>)).s
                  IN  Return([price_change |-> sp("changePrice"),
                              price_change_rate |-> sp("changePriceRate"),
                              previous_close |-> sp("previousClose")] @@ stock_data)

\* The loop body taking the rank from the element's own "rank" field when
\* it has one.
ranking_element_source_rank(result, i) ==
    IF result.type # "object" THEN Raise("AttributeError", "get")
    ELSE
      LET r == result.items
          str(k) == Get(r, k, JString(<<>>)).s
          stock_data == [rank |-> IF "rank" \in DOMAIN r THEN Len(r["rank"].s) + 8 ELSE i,
                         stock_code |-> str("stockCode"),
                         stock_name |-> str("stockName"),
                         market |-> str("marketName"),
                         current_price |-> str("savePrice"),
                         yahoo_url |-> Origin \o <<"/quote/">> \o str("stockCode")]
          ranking_result == Get(r, "rankingResult", JObject(EmptyDict))
      IN  IF ranking_result.type # "object" THEN Raise("AttributeError", "get")
          ELSE
            LET stop_price == Get(ranking_result.items, "stopPrice", JObject(EmptyDict))
            IN  IF ~Truthy(stop_price) THEN Return(stock_data)
                ELSE IF stop_price.type # "object" THEN Raise("AttributeError", "get")
                ELSE
                  LET sp(k) == Get(stop_price.items, k, JString(<<>>)).s
                  IN  Return([price_change |-> sp("changePrice"),
                              price_change_rate |-> sp("changePriceRate"),
                              previous_close |-> sp("previousClose")] @@ stock_data)

\* The body of the for loop of _parse_ranking_data for element `result` at
\* 1-based position i: the record, or a raise (AttributeError of .get on a
\* value that is no dict), which the loop catches and skips.
ranking_element(result, i) ==
    IF result.type # "object" THEN Raise("AttributeError", "get")
    ELSE
      LET r == result.items
          str(k) == Get(r, k, JString(<<>>)).s
          stock_data == [rank |-> i,
                         stock_code |-> str("stockCode"),
                         stock_name |-> str("stockName"),
                         market |-> str("marketName"),
                         current_price |-> str("savePrice"),
                         yahoo_url |-> Origin \o <<"/quote/">> \o str("stockCode")]
          ranking_result == Get(r, "rankingResult", JObject(EmptyDict))
      IN  IF ranking_result.type # "object" THEN Raise("AttributeError", "get")
          ELSE
            LET stop_price == Get(ranking_result.items, "stopPrice", JObject(EmptyDict))
            IN  IF ~Truthy(stop_price) THEN Return(stock_data)
                ELSE IF stop_price.type # "object" THEN Raise("AttributeError", "get")
                ELSE
                  LET sp(k) == Get(stop_price.items, k, JString(<<>>)).s
                  IN  Return([price_change |-> sp("changePrice"),
                              price_change_rate |-> sp("changePriceRate"),
                              previous_close |-> sp("previousClose")] @@ stock_data)

RECURSIVE ranking_loop(_, _)
\* for i, result in enumerate(results, 1): append, or skip on an exception.
ranking_loop(results, i) ==
    IF i > Len(results) THEN <<>>
    ELSE LET e == ranking_element(results[i], i) IN
         (IF e.raised THEN <<>> ELSE <<e.value>>) \o ranking_loop(results, i + 1)

\* StopHighScraper._parse_ranking_data(json_data), json_data an object.
parse_ranking_data(json_data) ==
    LET results == Get(json_data.items, "results", JArray(<<>>)) IN
    CASE results.type = "array" -> Return(ranking_loop(results.elems, 1))
         \* iterating a dict yields its keys, which have no .get: all skipped
      [] results.type = "object" -> Return(<<>>)
         \* len() of a number raises TypeError, caught by the outer except
      [] OTHER -> Raise("DataParsingError", "failed to parse ranking data")

\* _extract_from_json with the JSONDecodeError swallowed.
extract_from_json_swallow(text) ==
    LET m1 == search_window_pattern(text)
        json_match == IF m1.found THEN m1 ELSE search_quoted_pattern(text)
    IN  IF ~json_match.found THEN Return(<<>>)
        ELSE LET json_data == json_loads(json_match.group1) IN
             IF json_data.raised THEN Return(<<>>)
             ELSE LET stocks == parse_ranking_data(json_data.value) IN
                  IF stocks.raised
                  THEN Raise("DataParsingError", "unexpected error in JSON extraction")
                  ELSE stocks

\* _extract_from_json raising when there is no embedded JSON at all.
extract_from_json_absent_raises(text) ==
    LET m1 == search_window_pattern(text)
        json_match == IF m1.found THEN m1 ELSE search_quoted_pattern(text)
    IN  IF ~json_match.found THEN Raise("DataParsingError", "no JSON pattern")
        ELSE LET json_data == json_loads(json_match.group1) IN
             IF json_data.raised
             THEN Raise("DataParsingError", "JSON parse error")
             ELSE LET stocks == parse_ranking_data(json_data.value) IN
                  IF stocks.raised
                  THEN Raise("DataParsingError", "unexpected error in JSON extraction")
                  ELSE stocks

\* StopHighScraper._extract_from_json(html_content).
\* "JSON parse error" is the message "JSON解析エラー" of the source.
extract_from_json(text) ==
    LET m1 == search_window_pattern(text)
        json_match == IF m1.found THEN m1 ELSE search_quoted_pattern(text)
    IN  IF ~json_match.found THEN Return(<<>>)
        ELSE LET json_data == json_loads(json_match.group1) IN
             IF json_data.raised
             THEN Raise("DataParsingError", "JSON parse error")
             ELSE LET stocks == parse_ranking_data(json_data.value) IN
                  IF stocks.raised
                  THEN Raise("DataParsingError", "unexpected error in JSON extraction")
                  ELSE stocks

(***************************************************************************)
(* The parsed HTML document (BeautifulSoup tree), as far as the scrapers   *)
(* look at it.                                                             *)
(*   document : sequence of tables in document order                       *)
(*   table    : [ctx, cls, tbody, rows]; rows are all its tr elements      *)
(*              ctx   "module"   inside div[data-module="RankingResult"]   *)
(*                    "divclass" inside div.RankingResult                  *)
(*                    "dataranking" inside an element with data-ranking    *)
(*                    "plain"    none of these                             *)
(*              cls   "rankingTable" or "other"                            *)
(*              tbody TRUE when the first row is in a thead element and    *)
(*                    the others are in a tbody element                    *)
(*   row      : sequence of cells (td and th elements)                     *)
(*   cell     : [tag, link, span, text], laid out as                       *)
(*              <td><a href=H>LINK</a><span>SPAN</span>TEXT</td>           *)
(***************************************************************************)
NoLink == [has |-> FALSE, text |-> <<>>, href |-> [has |-> FALSE, v |-> <<>>]]

Link(text, href) == [has |-> TRUE, text |-> text, href |-> [has |-> TRUE, v |-> href]]

LinkNoHref(text) == [has |-> TRUE, text |-> text, href |-> [has |-> FALSE, v |-> <<>>]]

NoSpan == [has |-> FALSE, text |-> <<>>]

Span(text) == [has |-> TRUE, text |-> text]

Cell(tag, link, span, text) == [tag |-> tag, link |-> link, span |-> span, text |-> text]

TextCell(text) == Cell("td", NoLink, NoSpan, text)

\* element.get_text(): the text of the element and of everything in it.
get_text(cell) == cell.link.text \o cell.span.text \o cell.text

Digits == {"0", "1", "2", "3", "4", "5", "6", "7", "8", "9"}

DigitVal(c) ==
    CASE c = "0" -> 0 [] c = "1" -> 1 [] c = "2" -> 2 [] c = "3" -> 3
      [] c = "4" -> 4 [] c = "5" -> 5 [] c = "6" -> 6 [] c = "7" -> 7
      [] c = "8" -> 8 [] c = "9" -> 9

DigitChar(n) ==
    CASE n = 0 -> "0" [] n = 1 -> "1" [] n = 2 -> "2" [] n = 3 -> "3"
      [] n = 4 -> "4" [] n = 5 -> "5" [] n = 6 -> "6" [] n = 7 -> "7"
      [] n = 8 -> "8" [] n = 9 -> "9"

\* str.isdigit(): non-empty and every character a digit.  The atom "sup2"
\* is the character U+00B2 (superscript two): a digit for isdigit, not for
\* int().
isdigit(s) == s # <<>> /\ \A i \in 1..Len(s) : s[i] \in Digits \cup {"sup2"}

RECURSIVE DecVal(_)
DecVal(s) == IF s = <<>> THEN 0 ELSE 10 * DecVal(SubSeq(s, 1, Len(s) - 1)) + DigitVal(s[Len(s)])

\* int(s) for a string that passed isdigit().
int(s) ==
    IF \E i \in 1..Len(s) : s[i] = "sup2" THEN Raise("ValueError", "int")
    ELSE Return(DecVal(s))

RECURSIVE DecStr(_)
\* str(n) for n >= 0.
DecStr(n) == IF n < 10 THEN <<DigitChar(n)>> ELSE DecStr(n \div 10) \o <<DigitChar(n % 10)>>

\* s.replace(old, ""), old a single atom.
RemoveAtom(s, old) == SelectSeq(s, LAMBDA c : c # old)

\* The atoms that hold one of the characters of the class.
HasAmp == {"&"}

HasSlashOrQuery == {"/", "?", "/quote/", "/detail/", "https://finance.yahoo.co.jp"}

\* re.search(lit + "([^...]+)", s): the leftmost occurrence of the literal
\* atom that is followed by at least one atom outside the class; group 1 is
\* the longest run of such atoms.
search_after(s, lit, Stop) ==
    LET Starts == {i \in 1..(Len(s) - 1) : s[i] = lit /\ s[i + 1] \notin Stop}
    IN  IF Starts = {} THEN NoMatch
        ELSE LET i == CHOOSE a \in Starts : \A b \in Starts : a <= b
                 Stops == {j \in (i + 1)..Len(s) : s[j] \in Stop}
                 e == IF Stops = {} THEN Len(s)
                      ELSE (CHOOSE a \in Stops : \A b \in Stops : a <= b) - 1
             IN  [found |-> TRUE, group1 |-> SubSeq(s, i + 1, e)]

\* re.search(r"(\d{4})", s): the leftmost four consecutive digits.
search_four_digits(s) ==
    LET Starts == {i \in 1..(Len(s) - 3) : \A k \in 0..3 : s[i + k] \in Digits}
    IN  IF Starts = {} THEN NoMatch
        ELSE LET i == CHOOSE a \in Starts : \A b \in Starts : a <= b
             IN  [found |-> TRUE, group1 |-> SubSeq(s, i, i + 3)]

\* soup.select(selector): the tr elements matched, in document order.
RowsWhere(doc, matched) ==
    Concat([k \in 1..Len(doc) |-> IF k \in matched THEN doc[k].rows ELSE <<>>])

select(doc, selector) ==
    CASE selector = "div[data-module=RankingResult] table tr" ->
            RowsWhere(doc, {k \in 1..Len(doc) : doc[k].ctx = "module"})
      [] selector = "table.rankingTable tr" ->
            RowsWhere(doc, {k \in 1..Len(doc) : doc[k].cls = "rankingTable"})
      [] selector = "table tr" ->
            RowsWhere(doc, 1..Len(doc))
      [] selector = "div.RankingResult table tr" ->
            RowsWhere(doc, {k \in 1..Len(doc) : doc[k].ctx = "divclass"})
      [] selector = "[data-ranking] tr" ->
            RowsWhere(doc, {k \in 1..Len(doc) : doc[k].ctx = "dataranking"})
      [] selector = ".rankingTable tr" ->
            RowsWhere(doc, {k \in 1..Len(doc) : doc[k].cls = "rankingTable"})

(***************************************************************************)
(* StopHighScraper: the HTML path.                                         *)
(***************************************************************************)
StopHighSelectors ==
    << "div[data-module=RankingResult] table tr", "table.rankingTable tr",
       "table tr", "div.RankingResult table tr", "[data-ranking] tr",
       ".rankingTable tr" >>

\* The first selector, from position k on, that selects any row at all.
FirstSelectorNonEmpty(doc, selectors, k) ==
    LET Hits == {n \in k..Len(selectors) : Len(select(doc, selectors[n])) > 0}
    IN  IF Hits = {} THEN 0 ELSE CHOOSE a \in Hits : \A b \in Hits : a <= b

\* The first selector of the list, from position k on, whose rows are more
\* than one; 0 when there is none.
FirstSelector(doc, selectors, k) ==
    LET Hits == {n \in k..Len(selectors) : Len(select(doc, selectors[n])) > 1}
    IN  IF Hits = {} THEN 0 ELSE CHOOSE a \in Hits : \A b \in Hits : a <= b

\* StopHighScraper._find_table_rows(soup).
find_table_rows(doc) ==
    LET n == FirstSelector(doc, StopHighSelectors, 1)
    IN  IF n = 0 THEN <<>> ELSE select(doc, StopHighSelectors[n])

\* StopHighScraper._extract_stock_code(stock_cell, href, row_index).
stop_high_extract_stock_code(stock_cell, href, row_index) ==
    LET m1 == search_after(href, "code=", HasAmp)
        code_match == IF m1.found THEN m1
                      ELSE search_after(href, "/quote/", HasSlashOrQuery)
    IN  IF code_match.found THEN code_match.group1
        ELSE LET m3 == search_four_digits(get_text(stock_cell))
             IN  IF m3.found THEN m3.group1 ELSE <<"UNK">> \o DecStr(row_index)

\* StopHighScraper._extract_price_info(cells): cells[2], [3], [4] by position.
extract_price_info(cells) ==
    LET names == <<"current_price", "price_change", "price_change_rate">>
        n == IF Len(cells) - 2 < 3 THEN Len(cells) - 2 ELSE 3
    IN  [key \in {names[j] : j \in 1..n} |->
            get_text(cells[2 + CHOOSE j \in 1..n : names[j] = key])]

\* href if it starts with "/" gets the site origin in front.
absolute_url(href) ==
    IF href # <<>> /\ href[1] \in {"/", "/quote/", "/detail/"} THEN Origin \o href ELSE href

\* StopHighScraper._parse_table_row(row, row_index): the record, or None
\* (value "None") for a row that is skipped; every exception is caught
\* and gives None.
None == [none |-> TRUE]

\* _parse_table_row going on without the anchor check.
parse_table_row_without_link_check(row, row_index) ==
    LET cells == row IN
    IF Len(cells) < 3 THEN None
    ELSE
      LET rank_text == RemoveAtom(get_text(cells[1]), ".") IN
      IF ~isdigit(rank_text) THEN None
      ELSE
        LET rank == int(rank_text)
            stock_cell == cells[2]
            link == stock_cell.link
        IN  IF rank.raised THEN None
            ELSE
              LET href == IF link.href.has THEN link.href.v ELSE <<>>
              IN  extract_price_info(cells) @@
                  [rank |-> rank.value,
                   stock_code |-> stop_high_extract_stock_code(stock_cell, href, row_index),
                   stock_name |-> link.text,
                   market |-> IF stock_cell.span.has THEN stock_cell.span.text
                              ELSE <<"unknown">>,
                   yahoo_url |-> absolute_url(href)]

parse_table_row(row, row_index) ==
    LET cells == row IN
    IF Len(cells) < 3 THEN None
    ELSE
      LET rank_text == RemoveAtom(get_text(cells[1]), ".") IN
      IF ~isdigit(rank_text) THEN None
      ELSE
        LET rank == int(rank_text)
            stock_cell == cells[2]
            link == stock_cell.link
        IN  IF rank.raised THEN None
            ELSE IF ~link.has THEN None
            ELSE
              LET href == IF link.href.has THEN link.href.v ELSE <<>>
              IN  extract_price_info(cells) @@
                  [rank |-> rank.value,
                   stock_code |-> stop_high_extract_stock_code(stock_cell, href, row_index),
                   stock_name |-> link.text,
                   market |-> IF stock_cell.span.has THEN stock_cell.span.text
                              ELSE <<"unknown">>,
                   yahoo_url |-> absolute_url(href)]

\* for i, row in enumerate(rows[1:], 1): parsed[i] is what the row parser
\* gives for row i; it is appended unless it is None.
html_loop(parsed) ==
    SelectSeq(parsed, LAMBDA stock_data : stock_data # None)

\* StopHighScraper._extract_from_html(html_content).
extract_from_html(doc) ==
    LET rows == find_table_rows(doc) IN
    IF rows = <<>> THEN <<>> ELSE html_loop([i \in 1..(Len(rows) - 1) |-> parse_table_row(rows[i + 1], i)])

(***************************************************************************)
(* StopHighScraper: validation, statistics, the single-page operation.     *)
(***************************************************************************)
VALID_MARKETS == {"all", "tokyo", "osaka", "nagoya", "sapporo", "fukuoka"}

VALID_TERMS == {"daily", "weekly", "monthly"}

DEFAULT_MAX_PAGES == 3

\* A Python argument that should be an int: an int, a str or None.
PyInt(n) == [type |-> "int", v |-> n]

PyStr == [type |-> "str", v |-> 0]

PyNone == [type |-> "NoneType", v |-> 0]

\* _validate_inputs letting every page argument through.
validate_inputs_any_page(market, term, page) ==
    IF market \notin VALID_MARKETS THEN Raise("ValidationError", "market")
    ELSE IF term \notin VALID_TERMS THEN Raise("ValidationError", "term")
    ELSE Return(<<>>)

\* StopHighScraper._validate_inputs(market, term, page); market and term
\* are strings here.
validate_inputs(market, term, page) ==
    IF market \notin VALID_MARKETS THEN Raise("ValidationError", "market")
    ELSE IF term \notin VALID_TERMS THEN Raise("ValidationError", "term")
    ELSE IF page.type # "int" \/ page.v < 1 THEN Raise("ValidationError", "page")
    ELSE Return(<<>>)

\* performance_stats after __init__ (the two wall-clock entries,
\* total_request_time and last_request_time, are not modelled).
InitialStats == [requests_made |-> 0, successful_requests |-> 0, failed_requests |-> 0]

\* StopHighScraper._record_request_performance(start_time, success).
record_request_performance(stats, success) ==
    [requests_made |-> stats.requests_made + 1,
     successful_requests |-> stats.successful_requests + (IF success THEN 1 ELSE 0),
     failed_requests |-> stats.failed_requests + (IF success THEN 0 ELSE 1)]

\* What session.get followed by raise_for_status gives: a page
\* [text, doc], or an exception of requests.
Fetched(page) == [raised |-> FALSE, exc |-> "none", page |-> page]

FetchFailed(exc) == [raised |-> TRUE, exc |-> exc, page |-> [text |-> <<>>, doc |-> <<>>]]

\* The except clauses with the network failure logged and swallowed.
stop_high_handler_swallow(stats, exc, calls) ==
    IF IsInstance(exc.type, "RequestException")
    THEN [stats |-> record_request_performance(stats, FALSE),
          result |-> Return(<<>>), calls |-> calls]
    ELSE [stats |-> record_request_performance(stats, FALSE),
          result |-> Raise("StopHighScraperError", "unexpected error"), calls |-> calls]

\* The except clauses of get_stop_high_stocks, in their order.
stop_high_handler(stats, exc, calls) ==
    IF IsInstance(exc.type, "RequestException")
    THEN [stats |-> record_request_performance(stats, FALSE),
          result |-> Raise("NetworkError", "network error"), calls |-> calls]
    ELSE [stats |-> record_request_performance(stats, FALSE),
          result |-> Raise("StopHighScraperError", "unexpected error"), calls |-> calls]

\* get_stop_high_stocks running the HTML path always and returning both
\* paths' records together.
get_stop_high_stocks_mixed(stats, market, term, page, fetch) ==
    LET valid == validate_inputs(market, term, page) IN
    IF valid.raised THEN [stats |-> stats, result |-> valid, calls |-> <<>>]
    ELSE IF fetch.raised
    THEN stop_high_handler(stats, [type |-> fetch.exc, msg |-> "requests"], <<"get">>)
    ELSE
      LET stats1 == record_request_performance(stats, TRUE)
          stocks_from_json == extract_from_json(fetch.page.text)
      IN  IF stocks_from_json.raised
          THEN stop_high_handler(stats1, stocks_from_json.exc, <<"get", "json">>)
          ELSE [stats |-> stats1,
                result |-> Return(stocks_from_json.value
                                    \o extract_from_html(fetch.page.doc)),
                calls |-> <<"get", "json", "html">>]

\* StopHighScraper.get_stop_high_stocks(market, term, page) when the HTTP
\* GET gives `fetch`: the statistics afterwards, the result, and the calls
\* made on the way ("get", "json", "html"), in order.
get_stop_high_stocks(stats, market, term, page, fetch) ==
    LET valid == validate_inputs(market, term, page) IN
    IF valid.raised THEN [stats |-> stats, result |-> valid, calls |-> <<>>]
    ELSE IF fetch.raised
    THEN stop_high_handler(stats, [type |-> fetch.exc, msg |-> "requests"], <<"get">>)
    ELSE
      LET stats1 == record_request_performance(stats, TRUE)
          stocks_from_json == extract_from_json(fetch.page.text)
      IN  IF stocks_from_json.raised
          THEN stop_high_handler(stats1, stocks_from_json.exc, <<"get", "json">>)
          ELSE IF stocks_from_json.value # <<>>
          THEN [stats |-> stats1, result |-> stocks_from_json, calls |-> <<"get", "json">>]
          ELSE [stats |-> stats1, result |-> Return(extract_from_html(fetch.page.doc)),
                calls |-> <<"get", "json", "html">>]

\* A float quotient n / d, kept as the fraction; 0.0 is Ratio(0, 1).
Ratio(n, d) == [num |-> n, den |-> d]

\* get_performance_stats with the rate of the failed requests.
get_performance_stats_failed_rate(stats) ==
    [stored |-> stats,
     stats |-> stats @@
        [average_request_time |->
            IF stats.requests_made > 0 THEN Ratio("total_request_time", stats.requests_made)
            ELSE Ratio(0, 1),
         success_rate |->
            IF stats.requests_made > 0 THEN Ratio(stats.failed_requests, stats.requests_made)
            ELSE Ratio(0, 1)]]

\* StopHighScraper.get_performance_stats(): the stored statistics after the
\* call, and the copy returned with the two derived entries.  The request
\* durations are wall-clock readings; their sum stays the symbol
\* "total_request_time".
get_performance_stats(stats) ==
    [stored |-> stats,
     stats |-> stats @@
        [average_request_time |->
            IF stats.requests_made > 0 THEN Ratio("total_request_time", stats.requests_made)
            ELSE Ratio(0, 1),
         success_rate |->
            IF stats.requests_made > 0 THEN Ratio(stats.successful_requests, stats.requests_made)
            ELSE Ratio(0, 1)]]

(***************************************************************************)
(* StopLowScraper.                                                         *)
(***************************************************************************)
RECURSIVE RemoveDotT(_)
\* s.replace('.T', ''): every occurrence, left to right.
RemoveDotT(s) ==
    IF Len(s) < 2 THEN s
    ELSE IF s[1] = "." /\ s[2] = "T" THEN RemoveDotT(SubSeq(s, 3, Len(s)))
    ELSE <<s[1]>> \o RemoveDotT(Tail(s))

\* StopLowScraper._extract_stock_code(href, stock_cell, row_index).
stop_low_extract_stock_code(href, stock_cell, row_index) ==
    LET m1 == search_after(href, "code=", HasAmp)
        code_match == IF m1.found THEN m1
                      ELSE search_after(href, "/quote/", HasSlashOrQuery)
    IN  IF code_match.found THEN RemoveDotT(code_match.group1)
        ELSE LET m3 == search_four_digits(get_text(stock_cell))
             IN  IF m3.found THEN m3.group1 ELSE <<"UNKNOWN_">> \o DecStr(row_index)

\* StopLowScraper._extract_price_data(price_cells): the first five cells
\* after the stock cell, by position.
extract_price_data(price_cells) ==
    LET names == <<"current_price", "change_value", "change_rate", "volume",
                   "additional_info">>
        n == IF Len(price_cells) < 5 THEN Len(price_cells) ELSE 5
    IN  [key \in {names[j] : j \in 1..n} |->
            get_text(price_cells[CHOOSE j \in 1..n : names[j] = key])]

\* StopLowScraper._parse_stock_row(row, row_index): Return(record),
\* Return(None), or the exception it lets through.  scrape_date is the wall
\* clock, the atom "now".
parse_stock_row(row, row_index) ==
    LET cells == row IN
    IF Len(cells) < 3 THEN Return(None)
    ELSE
      LET rank_text == RemoveAtom(get_text(cells[1]), ".") IN
      IF ~isdigit(rank_text) THEN Return(None)
      ELSE
        LET rank == int(rank_text)
            stock_cell == cells[2]
            link == stock_cell.link
        IN  IF rank.raised THEN rank
            ELSE IF ~link.has THEN Return(None)
            ELSE
              LET href == IF link.href.has THEN link.href.v ELSE <<>>
              IN  Return(extract_price_data(SubSeq(cells, 3, Len(cells))) @@
                    [rank |-> rank.value,
                     stock_code |-> stop_low_extract_stock_code(href, stock_cell, row_index),
                     stock_name |-> link.text,
                     market |-> IF stock_cell.span.has THEN stock_cell.span.text
                                ELSE <<"unknown">>,
                     url |-> absolute_url(href),
                     scrape_date |-> <<"now">>])

StopLowSelectors ==
    << "div[data-module=RankingResult] table tr", "table.rankingTable tr",
       "table tr", "div.RankingResult table tr", "[data-ranking] tr" >>

\* The row loop of _parse_stock_data: a row whose parsing raises is skipped.
stop_low_row(row, row_index) ==
    LET stock_data == parse_stock_row(row, row_index) IN
    IF stock_data.raised THEN None ELSE stock_data.value

RECURSIVE rows_until_error(_, _)
\* The records of the rows from position i on, up to the first row whose
\* parsing raises.
rows_until_error(rows, i) ==
    IF i >= Len(rows) THEN <<>>
    ELSE LET stock_data == parse_stock_row(rows[i + 1], i)
         IN  IF stock_data.raised THEN <<>>
             ELSE (IF stock_data.value = None THEN <<>> ELSE <<stock_data.value>>)
                  \o rows_until_error(rows, i + 1)

\* _parse_stock_data giving up at the first row whose parsing raises.
parse_stock_data_abort_on_error(doc) ==
    LET n == FirstSelector(doc, StopLowSelectors, 1)
        rows == select(doc, StopLowSelectors[IF n = 0 THEN Len(StopLowSelectors) ELSE n])
    IN  rows_until_error(rows, 1)

\* StopLowScraper._parse_stock_data(soup): the rows of the first selector
\* with more than one row, else those of the last selector tried.
parse_stock_data(doc) ==
    LET n == FirstSelector(doc, StopLowSelectors, 1)
        rows == select(doc, StopLowSelectors[IF n = 0 THEN Len(StopLowSelectors) ELSE n])
    IN  IF rows = <<>> THEN <<>> ELSE html_loop([i \in 1..(Len(rows) - 1) |-> stop_low_row(rows[i + 1], i)])

\* StopLowScraper._scrape_page(page, market, term).
scrape_page(fetch) ==
    IF fetch.raised
    THEN (IF IsInstance(fetch.exc, "RequestException") THEN Return(<<>>)
          ELSE Raise(fetch.exc, "requests"))
    ELSE Return(parse_stock_data(fetch.page.doc))

(***************************************************************************)
(* SimpleYahooFinanceJapanScraper.                                         *)
(***************************************************************************)
\* The try block of the row loop of get_stocks_from_html: Return(record),
\* Return(None) for a row passed over with continue, or the exception
\* raised.
simple_parse_row(row, i) ==
    LET cells == row IN
    IF Len(cells) < 3 THEN Return(None)
    ELSE
      LET rank_text == get_text(cells[1]) IN
      IF ~isdigit(RemoveAtom(rank_text, ".")) THEN Return(None)
      ELSE
        LET rank == int(RemoveAtom(rank_text, "."))
            stock_cell == cells[2]
            link == stock_cell.link
            names == <<"value1", "value2", "value3">>
            n == IF Len(cells) - 2 < 3 THEN Len(cells) - 2 ELSE 3
        IN  IF rank.raised THEN rank
            ELSE IF ~link.has THEN Return(None)
            ELSE
              LET href == IF link.href.has THEN link.href.v ELSE <<>>
                  m1 == search_after(href, "code=", HasAmp)
                  code_match == IF m1.found THEN m1
                                ELSE search_after(href, "/detail/", HasSlashOrQuery)
                  m3 == search_four_digits(get_text(stock_cell))
              IN  Return(
                    [key \in {names[j] : j \in 1..n} |->
                        get_text(cells[2 + (CHOOSE j \in 1..n : names[j] = key)])] @@
                    [rank |-> rank.value,
                     stock_code |-> IF code_match.found THEN code_match.group1
                                    ELSE IF m3.found THEN m3.group1
                                    ELSE <<"UNK">> \o DecStr(i),
                     stock_name |-> link.text,
                     market |-> IF stock_cell.span.has THEN stock_cell.span.text
                                ELSE <<"unknown">>,
                     url |-> absolute_url(href)])

\* SimpleYahooFinanceJapanScraper.get_stocks_from_html(page): the selector
\* list is that of StopLowScraper; a row whose parsing raises is skipped;
\* any exception of the fetch gives [].
get_stocks_from_html(fetch) ==
    IF fetch.raised THEN <<>>
    ELSE
      LET n == FirstSelector(fetch.page.doc, StopLowSelectors, 1)
          rows == select(fetch.page.doc,
                         StopLowSelectors[IF n = 0 THEN Len(StopLowSelectors) ELSE n])
      IN  IF rows = <<>> THEN <<>>
          ELSE html_loop([i \in 1..(Len(rows) - 1) |->
                            LET stock_data == simple_parse_row(rows[i + 1], i)
                            IN  IF stock_data.raised THEN None ELSE stock_data.value])

(***************************************************************************)
(* YahooFinanceJapanScraper.                                               *)
(***************************************************************************)
\* YahooFinanceJapanScraper.get_page_data(page, market, term): the page,
\* or None (raised, here) on a RequestException.
get_page_data(fetch) ==
    IF fetch.raised /\ IsInstance(fetch.exc, "RequestException") THEN Return(None)
    ELSE IF fetch.raised THEN Raise(fetch.exc, "requests")
    ELSE Return(fetch.page)

\* One row of parse_stock_data (the row index only feeds a debug print).
yahoo_row(row, row_index) ==
    LET cells == SelectSeq(row, LAMBDA c : c.tag = "td") IN
    IF Len(cells) < 3 THEN None
    ELSE
      LET rank_text == get_text(cells[1]) IN
      IF ~isdigit(rank_text) THEN None
      ELSE
        LET rank == int(rank_text)
            stock_info_cell == cells[2]
            stock_link == stock_info_cell.link
        IN  IF rank.raised THEN None
            ELSE IF ~stock_link.has THEN None
            ELSE
              LET href == IF stock_link.href.has THEN stock_link.href.v ELSE <<>>
                  m1 == search_after(href, "code=", HasAmp)
                  code_match == IF m1.found THEN m1
                                ELSE search_after(href, "/detail/", HasSlashOrQuery)
                  names == <<"value", "price", "change">>
                  n == IF Len(cells) - 2 < 3 THEN Len(cells) - 2 ELSE 3
              IN  [key \in {names[j] : j \in 1..n} |->
                      get_text(cells[2 + CHOOSE j \in 1..n : names[j] = key])] @@
                  [rank |-> rank.value,
                   stock_code |-> IF code_match.found THEN code_match.group1 ELSE <<>>,
                   stock_name |-> stock_link.text,
                   market |-> IF stock_info_cell.span.has THEN stock_info_cell.span.text
                              ELSE <<>>,
                   url |-> absolute_url(href)]

\* YahooFinanceJapanScraper.parse_stock_data(html_content): the first
\* table of class rankingTable, else the first table; its tbody rows when
\* it has a tbody, else all its rows; no header row is skipped.
yahoo_parse_stock_data(doc) ==
    LET Ranked == {k \in 1..Len(doc) : doc[k].cls = "rankingTable"}
        k == IF Ranked # {} THEN CHOOSE a \in Ranked : \A b \in Ranked : a <= b
             ELSE 1
    IN  IF doc = <<>> THEN <<>>
        ELSE LET ranking_table == doc[k]
                 rows == IF ranking_table.tbody /\ ranking_table.rows # <<>>
                         THEN Tail(ranking_table.rows) ELSE ranking_table.rows
             IN  SelectSeq([i \in 1..Len(rows) |-> yahoo_row(rows[i], i)],
                           LAMBDA stock_data : stock_data # None)

(***************************************************************************)
(* The multi-page drivers: one iteration of each loop, given what the      *)
(* page operation gave.  next is "continue" (go on with page + 1),         *)
(* "return" (the loop is left and all_stocks returned) or "raise" (the     *)
(* exception leaves the driver); sleep says whether time.sleep is called.  *)
(***************************************************************************)
Step(stocks, sleep, next, exc) ==
    [all_stocks |-> stocks, sleep |-> sleep, next |-> next, exc |-> exc]

NoExc == [type |-> "none", msg |-> "none"]

\* The loop body of get_multiple_pages sleeping after every page with
\* records, the last one too.
get_multiple_pages_iteration_sleep_always(all_stocks, page, max_pages, r) ==
    IF r.raised
    THEN IF \E c \in {"ValidationError", "NetworkError", "DataParsingError"} :
                IsInstance(r.exc.type, c)
         THEN Step(all_stocks, FALSE, "return", NoExc)
         ELSE Step(all_stocks, FALSE, "raise", r.exc)
    ELSE IF r.value = <<>> THEN Step(all_stocks, FALSE, "return", NoExc)
    ELSE Step(all_stocks \o r.value, TRUE,
              IF page < max_pages THEN "continue" ELSE "return", NoExc)

\* The body of the for loop of StopHighScraper.get_multiple_pages; r is
\* the outcome of get_stop_high_stocks for this page.
get_multiple_pages_iteration(all_stocks, page, max_pages, r) ==
    IF r.raised
    THEN IF \E c \in {"ValidationError", "NetworkError", "DataParsingError"} :
                IsInstance(r.exc.type, c)
         THEN Step(all_stocks, FALSE, "return", NoExc)
         ELSE Step(all_stocks, FALSE, "raise", r.exc)
    ELSE IF r.value = <<>> THEN Step(all_stocks, FALSE, "return", NoExc)
    ELSE Step(all_stocks \o r.value, page < max_pages,
              IF page < max_pages THEN "continue" ELSE "return", NoExc)

\* The loop body of get_stop_low_stocks going on after an empty page.
get_stop_low_stocks_iteration_no_break(all_stocks, page, pages, r) ==
    IF r.raised THEN Step(all_stocks, FALSE, "raise", r.exc)
    ELSE Step(all_stocks \o r.value, r.value # <<>>,
              IF page < pages THEN "continue" ELSE "return", NoExc)

\* The body of the for loop of StopLowScraper.get_stop_low_stocks; r is the
\* outcome of _scrape_page for this page.
get_stop_low_stocks_iteration(all_stocks, page, pages, r) ==
    IF r.raised THEN Step(all_stocks, FALSE, "raise", r.exc)
    ELSE IF r.value = <<>> THEN Step(all_stocks, FALSE, "return", NoExc)
    ELSE Step(all_stocks \o r.value, TRUE,
              IF page < pages THEN "continue" ELSE "return", NoExc)

\* Whether `not html_content` holds: None, or a page with nothing in it.
NoContent(html_content) ==
    html_content = None \/ (html_content.text = <<>> /\ html_content.doc = <<>>)

\* What one page gives in YahooFinanceJapanScraper.get_all_stocks: the
\* records parsed, with got FALSE when get_page_data gave no content.
get_all_stocks_page(fetch) ==
    LET html_content == get_page_data(fetch) IN
    IF html_content.raised THEN [raised |-> TRUE, exc |-> html_content.exc,
                                 value |-> <<>>, got |-> FALSE]
    ELSE IF NoContent(html_content.value)
    THEN [raised |-> FALSE, exc |-> NoExc, value |-> <<>>, got |-> FALSE]
    ELSE [raised |-> FALSE, exc |-> NoExc,
          value |-> yahoo_parse_stock_data(html_content.value.doc), got |-> TRUE]

\* The loop body of get_all_stocks putting each page in front.
get_all_stocks_iteration_prepend(all_stocks, page, max_pages, r) ==
    IF r.raised THEN Step(all_stocks, FALSE, "raise", r.exc)
    ELSE IF ~r.got THEN Step(all_stocks, FALSE, "return", NoExc)
    ELSE IF r.value = <<>> THEN Step(all_stocks, FALSE, "return", NoExc)
    ELSE Step(r.value \o all_stocks, TRUE,
              IF page < max_pages THEN "continue" ELSE "return", NoExc)

\* The body of the for loop of YahooFinanceJapanScraper.get_all_stocks.
get_all_stocks_iteration(all_stocks, page, max_pages, r) ==
    IF r.raised THEN Step(all_stocks, FALSE, "raise", r.exc)
    ELSE IF ~r.got THEN Step(all_stocks, FALSE, "return", NoExc)
    ELSE IF r.value = <<>> THEN Step(all_stocks, FALSE, "return", NoExc)
    ELSE Step(all_stocks \o r.value, TRUE,
              IF page < max_pages THEN "continue" ELSE "return", NoExc)

(***************************************************************************)
(* YearToDateHighAnalyzer and YearToDateLowAnalyzer: the DataFrame filters.*)
(* A DataFrame is the sequence of its rows; a cell is a number Num(n), the *)
(* string 'N/A' (NA) or the missing value NaN.  Ratios and yields are in   *)
(* hundredths.                                                             *)
(***************************************************************************)
Num(n) == [t |-> "num", v |-> n]

NA == [t |-> "str", v |-> 0]

NaN == [t |-> "nan", v |-> 0]

\* series >= x and series <= x on one cell of a numeric series: False for
\* NaN.
Ge(cell, x) == cell.t = "num" /\ cell.v >= x

Le(cell, x) == cell.t = "num" /\ cell.v <= x

\* pd.to_numeric(series, errors='coerce') on one cell.
to_numeric(cell) == IF cell.t = "num" THEN cell ELSE NaN

\* Whether a series holds a str cell: comparing such an object series with
\* a number raises TypeError.
HasStr(df, column) == \E i \in 1..Len(df) : df[i][column].t = "str"

\* YearToDateHighAnalyzer.filter_stocks(df, criteria): the masks are applied
\* one after the other; a key the function does not know is not looked at.
filter_stocks(df, criteria) ==
    LET f1 == IF "min_ytd_return" \in DOMAIN criteria
              THEN SelectSeq(df, LAMBDA r : Ge(r.ytd_return_pct, criteria["min_ytd_return"]))
              ELSE df
        f2 == IF "min_high_return" \in DOMAIN criteria
              THEN SelectSeq(f1, LAMBDA r : Ge(r.high_return_pct, criteria["min_high_return"]))
              ELSE f1
        f3 == IF "sectors" \in DOMAIN criteria
              THEN SelectSeq(f2, LAMBDA r : r.sector \in criteria["sectors"])
              ELSE f2
    IN  IF "min_market_cap" \in DOMAIN criteria
        THEN IF HasStr(f3, "market_cap") THEN Raise("TypeError", ">=")
             ELSE Return(SelectSeq(f3, LAMBDA r : Ge(r.market_cap, criteria["min_market_cap"])))
        ELSE Return(f3)

\* YearToDateLowAnalyzer.filter_recovery_candidates(df, criteria).
filter_recovery_candidates(df, criteria) ==
    LET f1 == IF "min_recovery_score" \in DOMAIN criteria
              THEN SelectSeq(df, LAMBDA r : Ge(r.recovery_score, criteria["min_recovery_score"]))
              ELSE df
        f2 == IF "min_recovery_from_low" \in DOMAIN criteria
              THEN SelectSeq(f1, LAMBDA r : Ge(r.recovery_from_low_pct,
                                               criteria["min_recovery_from_low"]))
              ELSE f1
        f3 == IF "max_pb_ratio" \in DOMAIN criteria
              THEN SelectSeq(f2, LAMBDA r : r.pb_ratio # NA
                                            /\ Le(to_numeric(r.pb_ratio), criteria["max_pb_ratio"]))
              ELSE f2
        f4 == IF "min_dividend_yield" \in DOMAIN criteria
              THEN SelectSeq(f3, LAMBDA r : r.dividend_yield # NA
                                            /\ Ge(to_numeric(r.dividend_yield),
                                                  criteria["min_dividend_yield"]))
              ELSE f3
    IN  Return(IF "sectors" \in DOMAIN criteria
               THEN SelectSeq(f4, LAMBDA r : r.sector \in criteria["sectors"])
               ELSE f4)

(***************************************************************************)
(* YearToDateLowAnalyzer.calculate_recovery_score.  A field of stock_info  *)
(* is a cell: a number (Num), float nan (NaN), the string 'N/A' (NA) or    *)
(* None (NoneCell).  Numbers are integers in the unit that makes the       *)
(* thresholds of the code integers: pb_ratio in tenths, dividend_yield in  *)
(* hundredths, every other field in its own unit.                          *)
(***************************************************************************)
NoneCell == [t |-> "none", v |-> 0]

\* a < b, a > b on two cells raise TypeError unless both are floats or both
\* are strings.
Ordered(a, b) ==
    \/ a.t \in {"num", "nan"} /\ b.t \in {"num", "nan"}
    \/ a.t = "str" /\ b.t = "str"

\* a > b where Ordered(a, b): nan compares False, equal strings too.
Gt(a, b) == a.t = "num" /\ b.t = "num" /\ a.v > b.v

\* One term of the score: what it adds, or that a comparison in it raised.
Adds(n) == [raised |-> FALSE, add |-> n]
TermRaises == [raised |-> TRUE, add |-> 0]

\* if recovery_from_low_pct > 20 ... elif > 10 ... elif > 5.
recovery_term(stock_info) ==
    LET r == Get(stock_info, "recovery_from_low_pct", Num(0)) IN
    IF ~Ordered(r, Num(20)) THEN TermRaises
    ELSE IF Gt(r, Num(20)) THEN Adds(15)
    ELSE IF Gt(r, Num(10)) THEN Adds(10)
    ELSE IF Gt(r, Num(5)) THEN Adds(5)
    ELSE Adds(0)

\* if pb_ratio != 'N/A' and pb_ratio < 1.0 ... elif ... < 1.5.
pb_term(stock_info) ==
    LET pb_ratio == Get(stock_info, "pb_ratio", NA) IN
    IF pb_ratio = NA THEN Adds(0)
    ELSE IF ~Ordered(pb_ratio, Num(10)) THEN TermRaises
    ELSE IF Gt(Num(10), pb_ratio) THEN Adds(15)
    ELSE IF Gt(Num(15), pb_ratio) THEN Adds(10)
    ELSE Adds(0)

\* if pe_ratio != 'N/A' and 5 < pe_ratio < 15.
pe_term(stock_info) ==
    LET pe_ratio == Get(stock_info, "pe_ratio", NA) IN
    IF pe_ratio = NA THEN Adds(0)
    ELSE IF ~Ordered(Num(5), pe_ratio) THEN TermRaises
    ELSE IF Gt(pe_ratio, Num(5)) /\ Gt(Num(15), pe_ratio) THEN Adds(10)
    ELSE Adds(0)

\* if dividend_yield != 'N/A' and dividend_yield > 0.03.
dividend_term(stock_info) ==
    LET dividend_yield == Get(stock_info, "dividend_yield", NA) IN
    IF dividend_yield = NA THEN Adds(0)
    ELSE IF ~Ordered(dividend_yield, Num(3)) THEN TermRaises
    ELSE IF Gt(dividend_yield, Num(3)) THEN Adds(10)
    ELSE Adds(0)

\* if current_price > sma_20 > sma_50 ... elif current_price > sma_20; the
\* chained comparison reads sma_50 only when current_price > sma_20.
trend_term(stock_info) ==
    LET current_price == Get(stock_info, "current_price", Num(0))
        sma_20 == Get(stock_info, "sma_20", Num(0))
        sma_50 == Get(stock_info, "sma_50", Num(0))
    IN  IF ~Ordered(current_price, sma_20) THEN TermRaises
        ELSE IF ~Gt(current_price, sma_20) THEN Adds(0)
        ELSE IF ~Ordered(sma_20, sma_50) THEN TermRaises
        ELSE IF Gt(sma_20, sma_50) THEN Adds(15)
        ELSE Adds(5)

\* if volatility < 30.
volatility_term(stock_info) ==
    LET volatility == Get(stock_info, "volatility_pct", Num(100)) IN
    IF ~Ordered(volatility, Num(30)) THEN TermRaises
    ELSE IF Gt(Num(30), volatility) THEN Adds(5)
    ELSE Adds(0)

\* abs(x): TypeError on None and on str.
PyAbs(cell) == IF cell.t = "num" /\ cell.v < 0 THEN Num(0 - cell.v) ELSE cell

\* low_decline = abs(...); if low_decline > 50 ... elif low_decline > 30.
decline_term(stock_info) ==
    LET low_decline_pct == Get(stock_info, "low_decline_pct", Num(0)) IN
    IF low_decline_pct.t \notin {"num", "nan"} THEN TermRaises
    ELSE IF Gt(PyAbs(low_decline_pct), Num(50)) THEN Adds(10)
    ELSE IF Gt(PyAbs(low_decline_pct), Num(30)) THEN Adds(5)
    ELSE Adds(0)

\* The terms in the order of the try block.
score_terms(stock_info) ==
    << recovery_term(stock_info), pb_term(stock_info), pe_term(stock_info),
       dividend_term(stock_info), trend_term(stock_info),
       volatility_term(stock_info), decline_term(stock_info) >>

\* score after the try block: the terms are added in order up to the first
\* one that raises; except Exception: pass drops that one and the rest.
RECURSIVE score_after(_, _)
score_after(terms, score) ==
    IF terms = <<>> \/ Head(terms).raised THEN score
    ELSE score_after(Tail(terms), score + Head(terms).add)

\* min(max(score, 0), 100).
clamp_score(score) ==
    LET lo == IF score > 0 THEN score ELSE 0 IN IF lo < 100 THEN lo ELSE 100

\* YearToDateLowAnalyzer.calculate_recovery_score(stock_info).
calculate_recovery_score(stock_info) ==
    clamp_score(score_after(score_terms(stock_info), 50))

(***************************************************************************)
(* The ratio formulas.  Prices are whole yen; a ratio is a float cell      *)
(* whose number is in hundredths of a percent.                             *)
(***************************************************************************)
\* numpy's inf.
Inf == [t |-> "inf", v |-> 1]

\* round(n / d * 100, 2) in hundredths, for n >= 0 and d > 0 (the inputs
\* never fall on a tie).
RoundedPct(n, d) == (2 * n * 10000 + d) \div (2 * d)

\* YearToDateLowAnalyzer.get_detailed_stock_info: recovery_from_low =
\* ((current_price - ytd_low) / ytd_low) * 100 on numpy floats, where a
\* division by zero warns and gives inf, or nan for 0 / 0, and round keeps
\* both.
recovery_from_low(current_price, ytd_low) ==
    IF ytd_low # 0 THEN Num(RoundedPct(current_price - ytd_low, ytd_low))
    ELSE IF current_price - ytd_low = 0 THEN NaN
    ELSE Inf

\* calculate_ytd_high_ratio: price / ytd_high * 100, undefined (nan) when
\* ytd_high is zero.
calculate_ytd_high_ratio(price, ytd_high) ==
    IF ytd_high = 0 THEN NaN ELSE Num(RoundedPct(price, ytd_high))

(***************************************************************************)
(* YearToDateHighAnalyzer.get_ytd_high_stocks and                          *)
(* YearToDateLowAnalyzer.get_ytd_low_stocks: the same loop, but for the    *)
(* key of the second price column (info_key).                              *)
(***************************************************************************)
\* One row of the row loop: the record, or None when the row is skipped,
\* an exception raised while parsing it included.  The code lookup is the
\* one of StopLowScraper._extract_stock_code, with the rank in the
\* placeholder.
ytd_row(row, info_key) ==
    LET cells == row IN
    IF Len(cells) < 3 THEN None
    ELSE
      LET rank_text == RemoveAtom(get_text(cells[1]), ".") IN
      IF ~isdigit(rank_text) THEN None
      ELSE
        LET rank == int(rank_text)
            stock_cell == cells[2]
            link == stock_cell.link
            names == <<"current_info", info_key, "additional_info">>
            n == IF Len(cells) - 2 < 3 THEN Len(cells) - 2 ELSE 3
        IN  IF rank.raised \/ ~link.has THEN None
            ELSE
              LET href == IF link.href.has THEN link.href.v ELSE <<>>
              IN  [key \in {names[j] : j \in 1..n} |->
                      get_text(cells[2 + (CHOOSE j \in 1..n : names[j] = key)])] @@
                  [rank |-> rank.value,
                   stock_code |-> stop_low_extract_stock_code(href, stock_cell, rank.value),
                   stock_name |-> link.text,
                   market |-> IF stock_cell.span.has THEN stock_cell.span.text
                              ELSE <<"unknown">>,
                   yahoo_url |-> absolute_url(href)]

\* The try block of one iteration: the exception the outer handler
\* catches, or the page's records and whether time.sleep(1) was reached
\* (it is not when "table tr" selects at most one row).
get_ytd_stocks_page(fetch, info_key) ==
    IF fetch.raised
    THEN [raised |-> TRUE, exc |-> [type |-> fetch.exc, msg |-> "requests"],
          value |-> <<>>, sleep |-> FALSE]
    ELSE
      LET rows == select(fetch.page.doc, "table tr") IN
      IF Len(rows) <= 1
      THEN [raised |-> FALSE, exc |-> NoExc, value |-> <<>>, sleep |-> FALSE]
      ELSE [raised |-> FALSE, exc |-> NoExc,
            value |-> html_loop([i \in 1..(Len(rows) - 1) |-> ytd_row(rows[i + 1], info_key)]),
            sleep |-> TRUE]

\* The body of the for loop: both `continue` statements and the end of the
\* body go on to the next page.
get_ytd_stocks_iteration(all_stocks, page, pages, r) ==
    Step(all_stocks \o r.value, r.sleep,
         IF page < pages THEN "continue" ELSE "return", NoExc)

(***************************************************************************)
(* The detailed analysis: analyze_ytd_performance and                      *)
(* analyze_recovery_potential.  failed is the set of stock codes for which *)
(* get_detailed_stock_info returns None (no price history, or an           *)
(* exception of the lookup).                                               *)
(***************************************************************************)
\* stocks[:20] and stocks[:25].
YTD_DETAIL_LIMIT == 20
RECOVERY_DETAIL_LIMIT == 25

\* The dict get_detailed_stock_info returns for a code it finds; low: the
\* one of YearToDateLowAnalyzer.  The quote itself is one fixed history.
get_detailed_stock_info(stock_code, low) ==
    LET common ==
          [stock_code |-> stock_code, company_name |-> <<"L">>, sector |-> "Tech",
           industry |-> "Software", current_price |-> Num(2200), ytd_high |-> Num(2600),
           ytd_high_date |-> <<"d">>, ytd_low |-> Num(2000), ytd_low_date |-> <<"d">>,
           year_start_price |-> Num(2500), ytd_return_pct |-> Num(0 - 12),
           market_cap |-> NA, pe_ratio |-> NoneCell, volume |-> Num(1000),
           avg_volume |-> Num(1000)]
    IN  IF low
        THEN common @@
             [low_decline_pct |-> Num(0 - 20), recovery_from_low_pct |-> Num(10),
              max_drawdown_pct |-> Num(0 - 23), sma_20 |-> Num(2100), sma_50 |-> Num(2300),
              volatility_pct |-> Num(25), pb_ratio |-> Num(8), dividend_yield |-> NA]
        ELSE common @@ [high_return_pct |-> Num(4)]

\* analyze_ytd_performance losing the records whose lookup failed.
analyze_ytd_performance_drop_failed(stocks, failed) ==
    LET n == IF Len(stocks) < YTD_DETAIL_LIMIT THEN Len(stocks) ELSE YTD_DETAIL_LIMIT
    IN  [i \in 1..Cardinality({j \in 1..n : stocks[j].stock_code \notin failed}) |->
            get_detailed_stock_info(stocks[i].stock_code, FALSE) @@ stocks[i]]

\* YearToDateHighAnalyzer.analyze_ytd_performance(stocks): the rows of the
\* DataFrame; {**stock, **detailed_info} takes detailed_info's value for a
\* key both hold.
analyze_ytd_performance(stocks, failed) ==
    LET n == IF Len(stocks) < YTD_DETAIL_LIMIT THEN Len(stocks) ELSE YTD_DETAIL_LIMIT
    IN  [i \in 1..n |->
            IF stocks[i].stock_code \in failed THEN stocks[i]
            ELSE get_detailed_stock_info(stocks[i].stock_code, FALSE) @@ stocks[i]]

\* YearToDateLowAnalyzer.analyze_recovery_potential(stocks).
analyze_recovery_potential(stocks, failed) ==
    LET n == IF Len(stocks) < RECOVERY_DETAIL_LIMIT THEN Len(stocks)
             ELSE RECOVERY_DETAIL_LIMIT
    IN  [i \in 1..n |->
            IF stocks[i].stock_code \in failed THEN stocks[i]
            ELSE LET detailed_info == get_detailed_stock_info(stocks[i].stock_code, TRUE)
                 IN  [recovery_score |-> calculate_recovery_score(detailed_info)]
                     @@ detailed_info @@ stocks[i]]

(***************************************************************************)
(* Inputs.                                                                 *)
(***************************************************************************)
Table(ctx, cls, tbody, rows) == [ctx |-> ctx, cls |-> cls, tbody |-> tbody, rows |-> rows]

Page(text, doc) == [text |-> text, doc |-> doc]

HeaderRow == <<Cell("th", NoLink, NoSpan, <<"r">>), Cell("th", NoLink, NoSpan, <<"n">>),
               Cell("th", NoLink, NoSpan, <<"p">>)>>

DataRow(rank_text, name, href) ==
    <<TextCell(rank_text), Cell("td", Link(name, href), Span(<<"T", "S", "E">>), <<>>),
      TextCell(<<"1", "0", "0">>)>>

RowA == DataRow(<<"1">>, <<"A">>, <<"/quote/", "1", "2", "3", "4", ".", "T">>)

RowB == DataRow(<<"2", ".">>, <<"B">>, <<"?", "code=", "5", "6", "7", "8", "&", "x">>)

RowC == DataRow(<<"3">>, <<"C">>, <<"/detail/", "9", "0", "1", "2">>)

TextTwo == <<"x", "W", "{", "R", "[", "{", "c1", "n1", "}", "{", "c2", "n2", "}",
             "]", "}", ";">>

TextOne == <<"W", "{", "R", "[", "{", "c2", "n2", "m1", "}", "]", "}", ";">>

TextBad == <<"W", "{", "x", "}", ";">>

DocOne == <<Table("plain", "rankingTable", FALSE, <<HeaderRow, RowA>>)>>

DocTwo == <<Table("module", "other", FALSE, <<HeaderRow, RowB, RowC>>)>>

\* The pages the server may answer a driver with.
DriverPages ==
    { Page(TextTwo, <<>>), Page(TextOne, DocOne), Page(<<"x">>, DocOne),
      Page(<<"x">>, DocTwo), Page(<<"x">>, <<>>), Page(TextBad, DocOne),
      Page(<<>>, <<>>) }

DriverFetches ==
    {Fetched(p) : p \in DriverPages} \cup {FetchFailed(e) : e \in RequestExceptions}

\* The lexemes of one element of a results list: a well-formed entry, an
\* entry with rank-like and price-change fields, a number, and an entry
\* whose rankingResult is a number.
ElementCatalogue ==
    { <<"{", "c1", "n1", "}">>,
      <<"{", "c2", "n2", "rk", "rr", "{", "sp", "{", "cp", "}", "}", "}">>,
      <<"s">>,
      <<"{", "n1", "rr", "s", "}">> }

RECURSIVE SeqsUpTo(_, _)
\* The sequences over S of length at most n.
SeqsUpTo(S, n) ==
    IF n = 0 THEN {<<>>}
    ELSE LET shorter == SeqsUpTo(S, n - 1)
         IN  shorter \cup {Append(q, e) : q \in shorter, e \in S}

\* Well-formed embedded objects.
ValidBlobs ==
    { <<"{", "R", "[">> \o Concat(es) \o <<"]", "}">> : es \in SeqsUpTo(ElementCatalogue, MaxElems) }
    \cup { <<"{", "}">>, <<"{", "R", "s", "}">>, <<"{", "R", "{", "c1", "}", "}">>,
           <<"{", "k", "{", "R", "[", "]", "}", "}">> }

\* `{invalid json}`.
InvalidBlob == <<"{", "x", "}">>

\* A blob with one lexeme lost.
Damaged(b) == {SubSeq(b, 1, i - 1) \o SubSeq(b, i + 1, Len(b)) : i \in 1..Len(b)}

Blobs == ValidBlobs \cup {InvalidBlob} \cup UNION {Damaged(b) : b \in ValidBlobs}

\* What stands before and after the blob in the page text.
Wrappers ==
    { <<<<"W">>, <<";">>>>, <<<<"x", "W">>, <<";", "x">>>>, <<<<"W">>, <<>>>>,
      <<<<"W", "x">>, <<";">>>>, <<<<"Q">>, <<>>>>, <<<<"k", "{", "Q">>, <<"}">>>>,
      <<<<>>, <<>>>> }

Texts == {w[1] \o b \o w[2] : w \in Wrappers, b \in Blobs}

\* A table with nothing but its header row, and one whose data rows are
\* all skipped (no link; too few cells).
DocHeaderOnly == <<Table("plain", "rankingTable", FALSE, <<HeaderRow>>)>>

DocSkipped ==
    <<Table("plain", "other", FALSE,
            <<HeaderRow, <<TextCell(<<"1">>), TextCell(<<"A">>), TextCell(<<"1">>)>>,
              <<TextCell(<<"2">>), Cell("td", Link(<<"B">>, <<>>), NoSpan, <<>>)>>>>)>>

Docs == {<<>>, DocOne, DocTwo, DocHeaderOnly, DocSkipped}

\* The pages the server may answer a single call with.
Pages == {Page(t, d) : t \in Texts, d \in Docs}

Fetches == {Fetched(p) : p \in Pages} \cup {FetchFailed(e) : e \in RequestExceptions}

\* The embedded objects that json.loads accepts, parsed.
JsonDatas == {json_loads(b).value : b \in {c \in Blobs : ~json_loads(c).raised}}

\* The text of a rank cell: plain, with a trailing period, with an inner
\* period, zero, not numeric, a superscript digit, empty, a lone period.
RankTexts ==
    { <<"1">>, <<"2", ".">>, <<"1", ".", "5">>, <<"0">>, <<"x">>, <<"sup2">>, <<>>,
      <<".">> }

\* The stock cell of a row: the href patterns the code is looked for in,
\* a link with no text, a link with no href, no link at all.
StockCells ==
    { Cell("td", Link(<<"A">>, <<"/quote/", "1", "2", "3", "4", ".", "T">>),
           Span(<<"T", "S", "E">>), <<>>),
      Cell("td", Link(<<>>, <<"?", "code=", "5", "6", "7", "8", "&", "x">>), NoSpan, <<>>),
      Cell("td", Link(<<"C">>, <<"/detail/", "9", "0", "1", "2">>), NoSpan,
           <<"4", "3", "2", "1">>),
      Cell("td", Link(<<"D">>, <<"x">>), NoSpan, <<"4", "3", "2", "1", "0">>),
      Cell("td", Link(<<"E">>, <<"x">>), NoSpan, <<>>),
      Cell("td", Link(<<"F">>, <<"/quote/", "1", "2", "?", "code=", "3", "4">>),
           NoSpan, <<>>),
      Cell("td", Link(<<"G">>, <<"/quote/", "1", ".", "T", "2", ".", "T", "/", "x">>),
           NoSpan, <<>>),
      Cell("td", LinkNoHref(<<"H">>), Span(<<"T", "S", "E">>), <<>>),
      Cell("td", NoLink, NoSpan, <<"I">>) }

\* The cells after the stock cell.
PriceCells ==
    { <<>>, <<TextCell(<<"1", "0", "0">>)>>,
      <<TextCell(<<"1", "0", "0">>), TextCell(<<"+", "5">>)>> }

\* The tr elements a row parser may be given.
Rows ==
    { <<TextCell(r), c>> \o e : r \in RankTexts, c \in StockCells, e \in PriceCells }
    \cup { <<>>, <<TextCell(<<"1">>)>>, HeaderRow }

\* The positions a row may have in its table.
RowIndexes == {1, 12}

\* The rows of an analysis DataFrame: the columns the filters look at.
FrameRow(code, sector, market_cap, ytd_return_pct, pb_ratio) ==
    [code |-> code, sector |-> sector, market_cap |-> market_cap,
     ytd_return_pct |-> ytd_return_pct, high_return_pct |-> ytd_return_pct,
     recovery_score |-> Num(60), recovery_from_low_pct |-> ytd_return_pct,
     pb_ratio |-> pb_ratio, dividend_yield |-> pb_ratio]

FrameRows ==
    { FrameRow("7203", "Auto", Num(30), Num(15), Num(80)),
      FrameRow("6758", "Tech", Num(20), Num(5), NA),
      FrameRow("9984", "Tech", Num(50), Num(15), Num(200)),
      FrameRow("0001", "Tech", Num(5), NaN, NaN),
      FrameRow("0002", "Auto", NA, Num(15), Num(80)) }

Frames == SeqsUpTo(FrameRows, MaxRows)

\* The values the criteria may carry, by key.
CriteriaValues ==
    [min_ytd_return |-> 10, min_high_return |-> 10, sectors |-> {"Tech"},
     min_market_cap |-> 10, max_market_cap |-> 40, min_recovery_score |-> 50,
     min_recovery_from_low |-> 10, max_pb_ratio |-> 100, min_dividend_yield |-> 100]

\* The criteria dicts: at most two keys, or every key.
Criterias ==
    { [k \in keys |-> CriteriaValues[k]] :
        keys \in {c \in SUBSET DOMAIN CriteriaValues :
                    Cardinality(c) <= 2 \/ c = DOMAIN CriteriaValues} }

\* The values a field of stock_info may hold; Absent: the key is not there.
Absent == [t |-> "absent", v |-> 0]

\* The dict holding the fields of f that are not Absent.
AsDict(f) == [k \in {x \in DOMAIN f : f[x] # Absent} |-> f[k]]

StockInfos ==
    { AsDict(f) : f \in
        [recovery_from_low_pct : {Absent, Num(25), Num(3)},
         pb_ratio : {Absent, NA, NoneCell, Num(8)},
         pe_ratio : {Absent, NoneCell, Num(10)},
         dividend_yield : {Absent, Num(5)},
         current_price : {Absent, Num(100)},
         sma_20 : {Absent, Num(90)},
         sma_50 : {Absent, Num(80), Num(95)},
         volatility_pct : {Absent, Num(20)},
         low_decline_pct : {Absent, Num(0 - 60), NaN}] }

\* Prices, in whole yen.
Prices == {0, 100, 2000, 2200, 2500, 2600}

\* What session.get may do when _scrape_page is called on its own: as in
\* a driver, or raise an exception that is not a RequestException.
ScrapeFetches == DriverFetches \cup {FetchFailed("Exception")}

\* What session.get may do in an analyzer's loop.
AnalyzerFetches ==
    {Fetched(Page(<<"x">>, d)) : d \in {<<>>, DocOne, DocTwo, DocHeaderOnly}}
    \cup {FetchFailed("ConnectionError"), FetchFailed("Exception")}

\* A row whose rank cell passes isdigit and makes int() raise.
RowRaising == DataRow(<<"sup2">>, <<"D">>, <<"/quote/", "3", "4", "5", "6">>)

\* The documents handed to the HTML extraction on its own: those of Docs;
\* tables without a header row, behind a one-row table of higher priority
\* or not; two tables of different priority; one-row tables only; rows
\* that raise among rows that parse.
HtmlDocs ==
    Docs \cup
    { <<Table("plain", "other", FALSE, <<RowA, RowB>>)>>,
      <<Table("module", "other", FALSE, <<RowC>>),
        Table("plain", "rankingTable", FALSE, <<RowA, RowB>>)>>,
      <<Table("plain", "other", FALSE, <<HeaderRow, RowA>>),
        Table("module", "other", FALSE, <<HeaderRow, RowB, RowC>>)>>,
      <<Table("dataranking", "other", FALSE, <<RowA>>)>>,
      <<Table("plain", "rankingTable", FALSE, <<HeaderRow, RowA, RowRaising, RowB>>)>>,
      <<Table("plain", "rankingTable", FALSE, <<HeaderRow, RowRaising, RowRaising, RowC>>)>> }

\* The record of the stock ranked i, as the page loops build it.
RankedStock(i) ==
    [rank |-> i, stock_code |-> DecStr(1000 + i), stock_name |-> <<"N">> \o DecStr(i),
     market |-> IF i % 2 = 0 THEN <<"T", "S", "E">> ELSE <<"unknown">>,
     yahoo_url |-> <<"https://finance.yahoo.co.jp", "/quote/">> \o DecStr(1000 + i),
     current_info |-> <<"1", "0", "0">>]

\* The lists handed to the detailed analysis: none, one, and as many as
\* the limits, one less and one more.
StockLists ==
    { [i \in 1..n |-> RankedStock(i)] :
        n \in {0, 1, YTD_DETAIL_LIMIT - 1, YTD_DETAIL_LIMIT, YTD_DETAIL_LIMIT + 1,
               RECOVERY_DETAIL_LIMIT, RECOVERY_DETAIL_LIMIT + 1} }

\* The codes whose lookup fails: none, all, every third, the first one.
FailedLookups ==
    { {}, {DecStr(1000 + i) : i \in 1..(RECOVERY_DETAIL_LIMIT + 1)},
      {DecStr(1000 + i) : i \in {j \in 1..(RECOVERY_DETAIL_LIMIT + 1) : j % 3 = 0}},
      {DecStr(1001)} }

PageArgs == {PyInt(0), PyInt(1), PyStr}

\* The answer that is never asked for (no GET is issued).
NoFetch == FetchFailed("none")

Markets == {"all", "mothers"}

Terms == {"daily", "yearly"}

MaxPagesArgs == {PyNone, PyStr} \cup {PyInt(n) : n \in 0..MaxPages}

Scrapers ==
    {"StopHighScraper", "StopLowScraper", "YahooFinanceJapanScraper",
     "SimpleYahooFinanceJapanScraper", "YearToDateHighAnalyzer",
     "YearToDateLowAnalyzer"}

(***************************************************************************)
(* State.                                                                  *)
(*   scraper            the class of the scraper object                    *)
(*   pc                 "idle", "loop" (inside a driver's for loop), "done"*)
(*   op                 the public operation called                        *)
(*   market, term, max_pages, page, all_stocks   the driver's locals       *)
(*   performance_stats  StopHighScraper.performance_stats                  *)
(*   result             what the operation returned or raised (pc = done)  *)
(*   served             the HTTP GETs issued so far: [page, answer]        *)
(*   yields             the outcome of the page operation, per iteration   *)
(*   sleeps             the pages after which time.sleep was called        *)
(*   calls              the calls the last single-page operation made      *)
(*   input              the argument of a helper called directly           *)
(***************************************************************************)
VARIABLES scraper, pc, op, market, term, max_pages, page, all_stocks,
          performance_stats, result, served, yields, sleeps, calls, input

vars == <<scraper, pc, op, market, term, max_pages, page, all_stocks,
          performance_stats, result, served, yields, sleeps, calls, input>>

Init ==
    /\ scraper \in Scrapers
    /\ pc = "idle"
    /\ op = "none"
    /\ market = "all"
    /\ term = "daily"
    /\ max_pages = 0
    /\ page = 0
    /\ all_stocks = <<>>
    /\ performance_stats = InitialStats
    /\ result = Return(<<>>)
    /\ served = <<>>
    /\ yields = <<>>
    /\ sleeps = <<>>
    /\ calls = <<>>
    /\ input = [kind |-> "none"]

\* One HTTP GET: the page parameter sent and what came back.
Request(n, fetch) == [page |-> n, answer |-> fetch]

\* The driver's locals after an iteration that gave `step`.
Advance(step) ==
    /\ all_stocks' = step.all_stocks
    /\ sleeps' = IF step.sleep THEN Append(sleeps, page) ELSE sleeps
    /\ pc' = IF step.next = "continue" THEN "loop" ELSE "done"
    /\ page' = IF step.next = "continue" THEN page + 1 ELSE page
    /\ result' = CASE step.next = "continue" -> result
                   [] step.next = "return" -> Return(step.all_stocks)
                   [] step.next = "raise" -> [raised |-> TRUE, exc |-> step.exc,
                                              value |-> <<>>]

\* StopHighScraper.get_multiple_pages(market, term, max_pages): the call,
\* up to the for loop.
GetMultiplePages ==
    /\ pc = "idle"
    /\ scraper = "StopHighScraper"
    /\ \E m \in Markets, t \in Terms, mp \in MaxPagesArgs :
         LET n == IF mp = PyNone THEN PyInt(DEFAULT_MAX_PAGES) ELSE mp IN
         /\ op' = "get_multiple_pages"
         /\ market' = m
         /\ term' = t
         /\ input' = [kind |-> "max_pages", max_pages |-> mp]
         /\ IF n.type # "int" \/ n.v < 1
            THEN /\ pc' = "done"
                 /\ result' = Raise("ValidationError", "max_pages")
                 /\ UNCHANGED <<max_pages, page>>
            ELSE /\ pc' = "loop"
                 /\ max_pages' = n.v
                 /\ page' = 1
                 /\ UNCHANGED result
    /\ all_stocks' = <<>>
    /\ UNCHANGED <<scraper, performance_stats, served, yields, sleeps, calls>>

\* One iteration of the for loop of get_multiple_pages.
GetMultiplePagesPage ==
    /\ pc = "loop"
    /\ op = "get_multiple_pages"
    /\ \E fetch \in DriverFetches :
         LET r == get_stop_high_stocks(performance_stats, market, term, PyInt(page), fetch)
         IN  /\ performance_stats' = r.stats
             /\ served' = IF r.calls # <<>> THEN Append(served, Request(page, fetch)) ELSE served
             /\ yields' = Append(yields, r.result)
             /\ calls' = r.calls
             /\ Advance(get_multiple_pages_iteration(all_stocks, page, max_pages, r.result))
    /\ UNCHANGED <<scraper, op, market, term, max_pages, input>>

\* StopLowScraper.get_stop_low_stocks(pages, market, term): the call, up to
\* the for loop (range(1, pages + 1) is empty for pages < 1).
GetStopLowStocks ==
    /\ pc = "idle"
    /\ scraper = "StopLowScraper"
    /\ \E m \in Markets, t \in Terms, pages \in 0..MaxPages :
         /\ op' = "get_stop_low_stocks"
         /\ market' = m
         /\ term' = t
         /\ max_pages' = pages
         /\ IF pages < 1
            THEN pc' = "done" /\ result' = Return(<<>>) /\ UNCHANGED page
            ELSE pc' = "loop" /\ page' = 1 /\ UNCHANGED result
    /\ all_stocks' = <<>>
    /\ UNCHANGED <<scraper, performance_stats, served, yields, sleeps, calls, input>>

\* One iteration of the for loop of get_stop_low_stocks.
GetStopLowStocksPage ==
    /\ pc = "loop"
    /\ op = "get_stop_low_stocks"
    /\ \E fetch \in DriverFetches :
         LET r == scrape_page(fetch)
         IN  /\ served' = Append(served, Request(page, fetch))
             /\ yields' = Append(yields, r)
             /\ Advance(get_stop_low_stocks_iteration(all_stocks, page, max_pages, r))
    /\ UNCHANGED <<scraper, op, market, term, max_pages, performance_stats, calls, input>>

\* YahooFinanceJapanScraper.get_all_stocks(max_pages, market, term): the
\* call, up to the for loop.
GetAllStocks ==
    /\ pc = "idle"
    /\ scraper = "YahooFinanceJapanScraper"
    /\ \E m \in Markets, t \in Terms, pages \in 0..MaxPages :
         /\ op' = "get_all_stocks"
         /\ market' = m
         /\ term' = t
         /\ max_pages' = pages
         /\ IF pages < 1
            THEN pc' = "done" /\ result' = Return(<<>>) /\ UNCHANGED page
            ELSE pc' = "loop" /\ page' = 1 /\ UNCHANGED result
    /\ all_stocks' = <<>>
    /\ UNCHANGED <<scraper, performance_stats, served, yields, sleeps, calls, input>>

\* One iteration of the for loop of get_all_stocks.
GetAllStocksPage ==
    /\ pc = "loop"
    /\ op = "get_all_stocks"
    /\ \E fetch \in DriverFetches :
         LET r == get_all_stocks_page(fetch)
         IN  /\ served' = Append(served, Request(page, fetch))
             /\ yields' = Append(yields, [raised |-> r.raised, exc |-> r.exc,
                                          value |-> r.value])
             /\ Advance(get_all_stocks_iteration(all_stocks, page, max_pages, r))
    /\ UNCHANGED <<scraper, op, market, term, max_pages, performance_stats, calls, input>>

\* StopHighScraper.get_stop_high_stocks(market, term, page), called by
\* the user.
GetStopHighStocks ==
    /\ pc = "idle"
    /\ scraper = "StopHighScraper"
    /\ \E m \in Markets, t \in Terms, pg \in PageArgs :
       \E fetch \in IF validate_inputs(m, t, pg).raised THEN {NoFetch} ELSE Fetches :
         LET r == get_stop_high_stocks(performance_stats, m, t, pg, fetch)
         IN  /\ op' = "get_stop_high_stocks"
             /\ market' = m
             /\ term' = t
             /\ input' = [kind |-> "page", page |-> pg]
             /\ performance_stats' = r.stats
             /\ served' = IF r.calls # <<>> THEN Append(served, Request(pg.v, fetch)) ELSE served
             /\ yields' = Append(yields, r.result)
             /\ calls' = r.calls
             /\ result' = r.result
    /\ pc' = "done"
    /\ UNCHANGED <<scraper, max_pages, page, all_stocks, sleeps>>

\* StopHighScraper._extract_from_json(html_content), called directly.
ExtractFromJson ==
    /\ pc = "idle"
    /\ scraper = "StopHighScraper"
    /\ \E text \in Texts :
         /\ input' = [kind |-> "text", text |-> text]
         /\ result' = extract_from_json(text)
    /\ op' = "_extract_from_json"
    /\ pc' = "done"
    /\ UNCHANGED <<scraper, market, term, max_pages, page, all_stocks,
                   performance_stats, served, yields, sleeps, calls>>

\* StopHighScraper._parse_ranking_data(json_data), called directly.
ParseRankingData ==
    /\ pc = "idle"
    /\ scraper = "StopHighScraper"
    /\ \E json_data \in {j \in JsonDatas : j.type = "object"} :
         /\ input' = [kind |-> "json", json_data |-> json_data]
         /\ result' = parse_ranking_data(json_data)
    /\ op' = "_parse_ranking_data"
    /\ pc' = "done"
    /\ UNCHANGED <<scraper, market, term, max_pages, page, all_stocks,
                   performance_stats, served, yields, sleeps, calls>>

\* StopHighScraper._parse_table_row(row, row_index), called directly.
ParseTableRow ==
    /\ pc = "idle"
    /\ scraper = "StopHighScraper"
    /\ \E row \in Rows, row_index \in RowIndexes :
         /\ input' = [kind |-> "row", row |-> row, row_index |-> row_index]
         /\ result' = Return(parse_table_row(row, row_index))
    /\ op' = "_parse_table_row"
    /\ pc' = "done"
    /\ UNCHANGED <<scraper, market, term, max_pages, page, all_stocks,
                   performance_stats, served, yields, sleeps, calls>>

\* StopLowScraper._parse_stock_row(row, row_index), called directly.
ParseStockRow ==
    /\ pc = "idle"
    /\ scraper = "StopLowScraper"
    /\ \E row \in Rows, row_index \in RowIndexes :
         /\ input' = [kind |-> "row", row |-> row, row_index |-> row_index]
         /\ result' = parse_stock_row(row, row_index)
    /\ op' = "_parse_stock_row"
    /\ pc' = "done"
    /\ UNCHANGED <<scraper, market, term, max_pages, page, all_stocks,
                   performance_stats, served, yields, sleeps, calls>>

\* YahooFinanceJapanScraper.parse_stock_data(html_content), called directly
\* on a page whose only table has the one row.
ParseStockData ==
    /\ pc = "idle"
    /\ scraper = "YahooFinanceJapanScraper"
    /\ \E row \in Rows :
         /\ input' = [kind |-> "row", row |-> row, row_index |-> 1]
         /\ result' = Return(yahoo_parse_stock_data(
                                <<Table("plain", "rankingTable", FALSE, <<row>>)>>))
    /\ op' = "parse_stock_data"
    /\ pc' = "done"
    /\ UNCHANGED <<scraper, market, term, max_pages, page, all_stocks,
                   performance_stats, served, yields, sleeps, calls>>

\* YearToDateHighAnalyzer.filter_stocks(df, criteria), called directly.
FilterStocks ==
    /\ pc = "idle"
    /\ scraper = "YearToDateHighAnalyzer"
    /\ \E df \in Frames, criteria \in Criterias :
         /\ input' = [kind |-> "filter", df |-> df, criteria |-> criteria]
         /\ result' = filter_stocks(df, criteria)
    /\ op' = "filter_stocks"
    /\ pc' = "done"
    /\ UNCHANGED <<scraper, market, term, max_pages, page, all_stocks,
                   performance_stats, served, yields, sleeps, calls>>

\* YearToDateLowAnalyzer.filter_recovery_candidates(df, criteria), called
\* directly.
FilterRecoveryCandidates ==
    /\ pc = "idle"
    /\ scraper = "YearToDateLowAnalyzer"
    /\ \E df \in Frames, criteria \in Criterias :
         /\ input' = [kind |-> "filter", df |-> df, criteria |-> criteria]
         /\ result' = filter_recovery_candidates(df, criteria)
    /\ op' = "filter_recovery_candidates"
    /\ pc' = "done"
    /\ UNCHANGED <<scraper, market, term, max_pages, page, all_stocks,
                   performance_stats, served, yields, sleeps, calls>>

\* YearToDateLowAnalyzer.calculate_recovery_score(stock_info), called
\* directly.
CalculateRecoveryScore ==
    /\ pc = "idle"
    /\ scraper = "YearToDateLowAnalyzer"
    /\ \E stock_info \in StockInfos :
         /\ input' = [kind |-> "stock_info", stock_info |-> stock_info]
         /\ result' = Return(calculate_recovery_score(stock_info))
    /\ op' = "calculate_recovery_score"
    /\ pc' = "done"
    /\ UNCHANGED <<scraper, market, term, max_pages, page, all_stocks,
                   performance_stats, served, yields, sleeps, calls>>

\* calculate_ytd_high_ratio on one row, called directly.
CalculateYtdHighRatio ==
    /\ pc = "idle"
    /\ scraper = "YearToDateHighAnalyzer"
    /\ \E price \in Prices, ytd_high \in Prices :
         /\ price <= ytd_high
         /\ input' = [kind |-> "ratio", num |-> price, den |-> ytd_high]
         /\ result' = Return(calculate_ytd_high_ratio(price, ytd_high))
    /\ op' = "calculate_ytd_high_ratio"
    /\ pc' = "done"
    /\ UNCHANGED <<scraper, market, term, max_pages, page, all_stocks,
                   performance_stats, served, yields, sleeps, calls>>

\* The recovery_from_low computation of
\* YearToDateLowAnalyzer.get_detailed_stock_info, on one price history.
RecoveryFromLow ==
    /\ pc = "idle"
    /\ scraper = "YearToDateLowAnalyzer"
    /\ \E current_price \in Prices, ytd_low \in Prices :
         /\ ytd_low <= current_price
         /\ input' = [kind |-> "ratio", num |-> current_price - ytd_low,
                      den |-> ytd_low]
         /\ result' = Return(recovery_from_low(current_price, ytd_low))
    /\ op' = "recovery_from_low"
    /\ pc' = "done"
    /\ UNCHANGED <<scraper, market, term, max_pages, page, all_stocks,
                   performance_stats, served, yields, sleeps, calls>>

\* StopLowScraper._scrape_page(page, market, term), called directly.
ScrapePage ==
    /\ pc = "idle"
    /\ scraper = "StopLowScraper"
    /\ \E fetch \in ScrapeFetches :
         /\ input' = [kind |-> "fetch", fetch |-> fetch]
         /\ served' = Append(served, Request(1, fetch))
         /\ result' = scrape_page(fetch)
    /\ op' = "_scrape_page"
    /\ pc' = "done"
    /\ UNCHANGED <<scraper, market, term, max_pages, page, all_stocks,
                   performance_stats, yields, sleeps, calls>>

\* YearToDateHighAnalyzer.get_ytd_high_stocks(pages) and
\* YearToDateLowAnalyzer.get_ytd_low_stocks(pages): the call, up to the
\* for loop.
GetYtdStocks ==
    /\ pc = "idle"
    /\ scraper \in {"YearToDateHighAnalyzer", "YearToDateLowAnalyzer"}
    /\ \E pages \in 0..MaxPages :
         /\ max_pages' = pages
         /\ IF pages < 1
            THEN pc' = "done" /\ result' = Return(<<>>) /\ UNCHANGED page
            ELSE pc' = "loop" /\ page' = 1 /\ UNCHANGED result
    /\ op' = IF scraper = "YearToDateHighAnalyzer" THEN "get_ytd_high_stocks"
             ELSE "get_ytd_low_stocks"
    /\ all_stocks' = <<>>
    /\ UNCHANGED <<scraper, market, term, performance_stats, served, yields,
                   sleeps, calls, input>>

\* One iteration of the for loop of get_ytd_high_stocks / get_ytd_low_stocks.
GetYtdStocksPage ==
    /\ pc = "loop"
    /\ op \in {"get_ytd_high_stocks", "get_ytd_low_stocks"}
    /\ \E fetch \in AnalyzerFetches :
         LET r == get_ytd_stocks_page(fetch, IF op = "get_ytd_high_stocks"
                                             THEN "ytd_high_info" ELSE "ytd_low_info")
         IN  /\ served' = Append(served, Request(page, fetch))
             /\ yields' = Append(yields, [raised |-> r.raised, exc |-> r.exc,
                                          value |-> r.value])
             /\ Advance(get_ytd_stocks_iteration(all_stocks, page, max_pages, r))
    /\ UNCHANGED <<scraper, op, market, term, max_pages, performance_stats, calls, input>>

\* StopHighScraper.get_performance_stats(), called on a fresh scraper or
\* after get_stop_high_stocks or get_multiple_pages has returned or raised.
GetPerformanceStats ==
    /\ scraper = "StopHighScraper"
    /\ \/ pc = "idle"
       \/ pc = "done" /\ op \in {"get_stop_high_stocks", "get_multiple_pages"}
    /\ LET r == get_performance_stats(performance_stats)
       IN  /\ input' = [kind |-> "stats", stats |-> performance_stats]
           /\ performance_stats' = r.stored
           /\ result' = Return(r.stats)
    /\ op' = "get_performance_stats"
    /\ pc' = "done"
    /\ UNCHANGED <<scraper, market, term, max_pages, page, all_stocks,
                   served, yields, sleeps, calls>>

\* StopHighScraper._extract_from_html(html_content), called directly.
ExtractFromHtml ==
    /\ pc = "idle"
    /\ scraper = "StopHighScraper"
    /\ \E doc \in HtmlDocs :
         /\ input' = [kind |-> "doc", doc |-> doc]
         /\ result' = Return(extract_from_html(doc))
    /\ op' = "_extract_from_html"
    /\ pc' = "done"
    /\ UNCHANGED <<scraper, market, term, max_pages, page, all_stocks,
                   performance_stats, served, yields, sleeps, calls>>

\* StopLowScraper._parse_stock_data(soup), called directly.
StopLowParseStockData ==
    /\ pc = "idle"
    /\ scraper = "StopLowScraper"
    /\ \E doc \in HtmlDocs :
         /\ input' = [kind |-> "doc", doc |-> doc]
         /\ result' = Return(parse_stock_data(doc))
    /\ op' = "_parse_stock_data"
    /\ pc' = "done"
    /\ UNCHANGED <<scraper, market, term, max_pages, page, all_stocks,
                   performance_stats, served, yields, sleeps, calls>>

\* SimpleYahooFinanceJapanScraper.get_stocks_from_html(page).
GetStocksFromHtml ==
    /\ pc = "idle"
    /\ scraper = "SimpleYahooFinanceJapanScraper"
    /\ \E fetch \in {Fetched(Page(<<"x">>, d)) : d \in HtmlDocs} \cup {FetchFailed("Exception")} :
         /\ input' = [kind |-> "doc", doc |-> fetch.page.doc]
         /\ served' = Append(served, Request(1, fetch))
         /\ result' = Return(get_stocks_from_html(fetch))
    /\ op' = "get_stocks_from_html"
    /\ pc' = "done"
    /\ UNCHANGED <<scraper, market, term, max_pages, page, all_stocks,
                   performance_stats, yields, sleeps, calls>>

\* YearToDateHighAnalyzer.analyze_ytd_performance(stocks).
AnalyzeYtdPerformance ==
    /\ pc = "idle"
    /\ scraper = "YearToDateHighAnalyzer"
    /\ \E stocks \in StockLists, failed \in FailedLookups :
         /\ input' = [kind |-> "stocks", stocks |-> stocks, failed |-> failed]
         /\ result' = Return(analyze_ytd_performance(stocks, failed))
    /\ op' = "analyze_ytd_performance"
    /\ pc' = "done"
    /\ UNCHANGED <<scraper, market, term, max_pages, page, all_stocks,
                   performance_stats, served, yields, sleeps, calls>>

\* YearToDateLowAnalyzer.analyze_recovery_potential(stocks).
AnalyzeRecoveryPotential ==
    /\ pc = "idle"
    /\ scraper = "YearToDateLowAnalyzer"
    /\ \E stocks \in StockLists, failed \in FailedLookups :
         /\ input' = [kind |-> "stocks", stocks |-> stocks, failed |-> failed]
         /\ result' = Return(analyze_recovery_potential(stocks, failed))
    /\ op' = "analyze_recovery_potential"
    /\ pc' = "done"
    /\ UNCHANGED <<scraper, market, term, max_pages, page, all_stocks,
                   performance_stats, served, yields, sleeps, calls>>

Next ==
    \/ GetMultiplePages
    \/ GetMultiplePagesPage
    \/ GetStopLowStocks
    \/ GetStopLowStocksPage
    \/ GetAllStocks
    \/ GetAllStocksPage
    \/ GetStopHighStocks
    \/ ExtractFromJson
    \/ ParseRankingData
    \/ ParseTableRow
    \/ ParseStockRow
    \/ ParseStockData
    \/ FilterStocks
    \/ FilterRecoveryCandidates
    \/ CalculateRecoveryScore
    \/ CalculateYtdHighRatio
    \/ RecoveryFromLow
    \/ ScrapePage
    \/ GetYtdStocks
    \/ GetYtdStocksPage
    \/ GetPerformanceStats
    \/ ExtractFromHtml
    \/ StopLowParseStockData
    \/ GetStocksFromHtml
    \/ AnalyzeYtdPerformance
    \/ AnalyzeRecoveryPotential

Spec == Init /\ [][Next]_vars

(***************************************************************************)
(* Properties.                                                             *)
(***************************************************************************)
IsDriver == op \in {"get_multiple_pages", "get_stop_low_stocks", "get_all_stocks"}

\* The records each iteration's page gave (none when it raised).
YieldValues == [k \in 1..Len(yields) |-> IF yields[k].raised THEN <<>> ELSE yields[k].value]

EmptyYield(n) == ~yields[n].raised /\ yields[n].value = <<>>

\* The page text of the single call's GET, and what its JSON path gives.
FetchedOk == served # <<>> /\ ~served[Len(served)].answer.raised

FetchedPage == served[Len(served)].answer.page

\* The text captured by the first pattern, else by the second.
Captured(text) ==
    IF search_window_pattern(text).found THEN search_window_pattern(text)
    ELSE search_quoted_pattern(text)

\* C1: in each of the three drivers the first page that yields zero records
\* ends the run: it is the last iteration, no page with a higher number is
\* requested, nothing is raised, and exactly the records accumulated from
\* the earlier pages are returned.
C1_StopsAtFirstEmptyPage ==
    IsDriver =>
      \A n \in 1..Len(yields) :
        EmptyYield(n) =>
          /\ n = Len(yields)
          /\ pc = "done"
          /\ ~result.raised
          /\ result.value = Concat(SubSeq(YieldValues, 1, n - 1))
          /\ \A k \in 1..Len(served) : served[k].page <= n

\* A run of get_multiple_pages that stopped at an empty page 2 of 3 with
\* the records of page 1.
C1_Witness ==
    /\ op = "get_multiple_pages"
    /\ pc = "done"
    /\ max_pages = 3
    /\ Len(yields) = 2
    /\ EmptyYield(2)
    /\ Len(result.value) = 2

\* C2: if get_stop_high_stocks fails on page k (validation, network or
\* parsing failure), get_multiple_pages raises nothing, requests no page
\* after k and returns exactly the records of pages 1..k-1.
C2_FailedPageGivesPartialResults ==
    op = "get_multiple_pages" =>
      \A k \in 1..Len(yields) :
        yields[k].raised =>
          /\ k = Len(yields)
          /\ pc = "done"
          /\ ~result.raised
          /\ result.value = Concat(SubSeq(YieldValues, 1, k - 1))
          /\ \A j \in 1..Len(served) : served[j].page <= k

\* C3: in get_multiple_pages time.sleep is called after page p exactly when
\* page p yielded at least one record and p < max_pages, once per such
\* page; and a run whose pages yield 2, 1, 0 records returns 3 records after
\* exactly 3 page requests and exactly 2 delays.
C3_DelayExactlyAfterProductivePage ==
    op = "get_multiple_pages" =>
      /\ \A p \in 1..Len(yields) :
           (\E i \in 1..Len(sleeps) : sleeps[i] = p)
             <=> (~yields[p].raised /\ yields[p].value # <<>> /\ p < max_pages)
      /\ \A i, j \in 1..Len(sleeps) : i < j => sleeps[i] < sleeps[j]
      /\ \A i \in 1..Len(sleeps) : sleeps[i] \in 1..Len(yields)
      /\ (/\ Len(yields) = 3
          /\ \A p \in 1..3 : ~yields[p].raised
          /\ Len(yields[1].value) = 2
          /\ Len(yields[2].value) = 1
          /\ Len(yields[3].value) = 0)
         => /\ pc = "done"
            /\ ~result.raised
            /\ Len(result.value) = 3
            /\ Len(served) = 3
            /\ Len(sleeps) = 2

\* The run of the test: pages yielding 2, 1 and 0 records.
C3_Witness ==
    /\ op = "get_multiple_pages"
    /\ pc = "done"
    /\ Len(yields) = 3
    /\ \A p \in 1..3 : ~yields[p].raised
    /\ Len(yields[1].value) = 2
    /\ Len(yields[2].value) = 1
    /\ Len(yields[3].value) = 0
    /\ sleeps = <<1, 2>>

\* C4: in every driver a run in which all N = page-limit pages yield
\* records issues exactly N - 1 delays, none of them after page N.
C4_NoDelayAfterLastPage ==
    (/\ IsDriver
     /\ pc = "done"
     /\ max_pages >= 1
     /\ Len(yields) = max_pages
     /\ \A p \in 1..Len(yields) : ~yields[p].raised /\ yields[p].value # <<>>)
    => /\ Len(sleeps) = max_pages - 1
       /\ \A i \in 1..Len(sleeps) : sleeps[i] # max_pages

\* C5: a driver requests the pages 1, 2, 3, ... in this order, each once
\* and none beyond the page limit, and the list it has accumulated, and
\* returns, is the concatenation of the pages' record lists in page order.
C5_PagesInOrderAndConcatenated ==
    IsDriver =>
      /\ \A k \in 1..Len(served) : served[k].page = k /\ k <= max_pages
      /\ all_stocks = Concat(YieldValues)
      /\ (pc = "done" /\ ~result.raised) => result.value = Concat(YieldValues)

\* A finished run of get_all_stocks whose two pages gave different records.
C5_Witness ==
    /\ op = "get_all_stocks"
    /\ pc = "done"
    /\ Len(yields) = 2
    /\ yields[1].value # <<>>
    /\ yields[2].value # <<>>
    /\ yields[1].value # yields[2].value
    /\ result.value = yields[1].value \o yields[2].value

\* C6: when the page text has a match of one of the two patterns and the
\* captured text is not valid JSON, _extract_from_json raises
\* DataParsingError with the JSON-parse-failure message; it does not return
\* a list.  The test's input `window.mainRankingList = {invalid json};` is
\* such a text.
C6_MalformedJsonRaises ==
    (op = "_extract_from_json" /\ pc = "done") =>
      /\ (Captured(input.text).found /\ json_loads(Captured(input.text).group1).raised)
           => /\ result.raised
              /\ result.exc = [type |-> "DataParsingError", msg |-> "JSON parse error"]
      /\ input.text = <<"W">> \o InvalidBlob \o <<";">>
           => result.raised /\ result.exc.type = "DataParsingError"

\* A text matched only by the second pattern, whose capture ends at the
\* first closing brace and is not valid JSON.
C6_Witness ==
    /\ op = "_extract_from_json"
    /\ pc = "done"
    /\ ~search_window_pattern(input.text).found
    /\ search_quoted_pattern(input.text).found
    /\ Len(input.text) > 8
    /\ result.raised
    /\ result.exc.msg = "JSON parse error"

\* C7: get_stop_high_stocks reports a malformed embedded JSON blob as a
\* DataParsingError, the error type _extract_from_json raised, and does not
\* attempt the HTML path.
C7_MalformedJsonReachesCaller ==
    (/\ op = "get_stop_high_stocks"
     /\ pc = "done"
     /\ FetchedOk
     /\ extract_from_json(FetchedPage.text).raised)
    => /\ result.raised
       /\ result.exc.type = extract_from_json(FetchedPage.text).exc.type
       /\ result.exc.type = "DataParsingError"
       /\ \A i \in 1..Len(calls) : calls[i] # "html"

\* C8: whenever the HTTP GET of get_stop_high_stocks fails (connection
\* error, timeout, HTTP error status), the operation raises NetworkError;
\* it returns no list.  This holds for the user's call and for each call
\* get_multiple_pages makes.
C8_FetchFailureRaisesNetworkError ==
    /\ (op = "get_stop_high_stocks" /\ pc = "done" /\ served # <<>>
          /\ served[1].answer.raised)
         => result.raised /\ result.exc.type = "NetworkError"
    /\ op = "get_multiple_pages"
         => \A k \in 1..Len(served) :
              served[k].answer.raised
                => yields[k].raised /\ yields[k].exc.type = "NetworkError"

\* A call of get_stop_high_stocks whose GET met an HTTP error status.
C8_Witness ==
    /\ op = "get_stop_high_stocks"
    /\ pc = "done"
    /\ served # <<>>
    /\ served[1].answer.raised
    /\ served[1].answer.exc = "HTTPError"
    /\ result.raised

\* No selector of the list gives more than one row.
NoUsableTable(doc) ==
    \A n \in 1..Len(StopHighSelectors) : Len(select(doc, StopHighSelectors[n])) <= 1

\* C9: when the page text matches neither JSON pattern, _extract_from_json
\* returns an empty list without raising; when in addition no selector
\* yields a usable table, get_stop_high_stocks returns an empty list without
\* raising.
C9_AbsenceIsNotAnError ==
    /\ (op = "_extract_from_json" /\ pc = "done" /\ ~Captured(input.text).found)
         => result = Return(<<>>)
    /\ (/\ op = "get_stop_high_stocks"
        /\ pc = "done"
        /\ FetchedOk
        /\ ~Captured(FetchedPage.text).found
        /\ NoUsableTable(FetchedPage.doc))
       => result = Return(<<>>)

\* A page with lexemes of a JSON assignment that no pattern matches and a
\* table of a header row only.
C9_Witness ==
    /\ op = "get_stop_high_stocks"
    /\ pc = "done"
    /\ FetchedOk
    /\ ~Captured(FetchedPage.text).found
    /\ Len(FetchedPage.text) > 3
    /\ FetchedPage.doc = DocHeaderOnly
    /\ result = Return(<<>>)

\* C10: get_stop_high_stocks returns exactly the JSON-path records whenever
\* the JSON path yields at least one record, and runs the HTML path only
\* when the JSON path found nothing, returning then the HTML records alone.
C10_JsonBeforeHtml ==
    (op = "get_stop_high_stocks" /\ pc = "done" /\ FetchedOk) =>
      LET json == extract_from_json(FetchedPage.text)
          html_run == \E i \in 1..Len(calls) : calls[i] = "html"
      IN  /\ (~json.raised /\ json.value # <<>>)
               => result = Return(json.value) /\ ~html_run
          /\ html_run
               => /\ ~json.raised
                  /\ json.value = <<>>
                  /\ result = Return(extract_from_html(FetchedPage.doc))

\* A page whose JSON gives records and whose table would give records too.
C10_Witness ==
    /\ op = "get_stop_high_stocks"
    /\ pc = "done"
    /\ FetchedOk
    /\ ~extract_from_json(FetchedPage.text).raised
    /\ extract_from_json(FetchedPage.text).value # <<>>
    /\ extract_from_html(FetchedPage.doc) # <<>>
    /\ result = extract_from_json(FetchedPage.text)

\* The records the finished operation emitted: the elements of the list it
\* returned, or the record a row parser returned.
Emitted ==
    IF pc # "done" \/ result.raised THEN {}
    ELSE IF op \in {"_parse_table_row", "_parse_stock_row"}
    THEN IF result.value = None THEN {} ELSE {result.value}
    ELSE {result.value[i] : i \in 1..Len(result.value)}

\* C11: every record emitted, on the JSON path as on the HTML path, has a
\* rank, a non-empty stock_name and a non-empty stock_code; an element or
\* row lacking one of the three produces no record.
C11_RecordHasRankNameAndCode ==
    \A r \in Emitted :
      /\ r.rank \in Nat
      /\ r.stock_name # <<>>
      /\ r.stock_code # <<>>

\* The `results` list handed to _parse_ranking_data, when it is a list.
HasResultsList ==
    /\ op = "_parse_ranking_data"
    /\ pc = "done"
    /\ "results" \in DOMAIN input.json_data.items
    /\ input.json_data.items["results"].type = "array"

ResultsList == input.json_data.items["results"].elems

\* The string under key k of a JSON object, the empty string without it.
Lookup(e, k) == IF k \in DOMAIN e.items THEN e.items[k].s ELSE <<>>

\* rankingResult.stopPrice is present and non-empty.
HasStopPrice(e) ==
    /\ "rankingResult" \in DOMAIN e.items
    /\ e.items["rankingResult"].type = "object"
    /\ "stopPrice" \in DOMAIN e.items["rankingResult"].items
    /\ e.items["rankingResult"].items["stopPrice"].type = "object"
    /\ DOMAIN e.items["rankingResult"].items["stopPrice"].items # {}

\* An element that is an object whose rankingResult and stopPrice, when
\* present, are objects too.
WellFormed(e) ==
    /\ e.type = "object"
    /\ "rankingResult" \in DOMAIN e.items =>
         /\ e.items["rankingResult"].type = "object"
         /\ "stopPrice" \in DOMAIN e.items["rankingResult"].items =>
              e.items["rankingResult"].items["stopPrice"].type = "object"

PriceChangeKeys == {"price_change", "price_change_rate", "previous_close"}

C13_RankIsPosition ==
    HasResultsList =>
      /\ ~result.raised
      /\ \A k \in 1..Len(result.value) :
           LET rank == result.value[k].rank IN
           /\ rank \in 1..Len(ResultsList)
           /\ ResultsList[rank].type = "object"
           /\ result.value[k].stock_code = Lookup(ResultsList[rank], "stockCode")
           /\ result.value[k].stock_name = Lookup(ResultsList[rank], "stockName")
           /\ k > 1 => result.value[k - 1].rank < rank
      /\ (\A i \in 1..Len(ResultsList) : WellFormed(ResultsList[i])) =>
           /\ Len(result.value) = Len(ResultsList)
           /\ \A k \in 1..Len(result.value) : result.value[k].rank = k

\* Two well-formed elements, the second carrying a "rank" field of its own.
C13_Witness ==
    /\ HasResultsList
    /\ Len(ResultsList) = 2
    /\ WellFormed(ResultsList[1]) /\ WellFormed(ResultsList[2])
    /\ Lookup(ResultsList[2], "rank") = <<"9">>
    /\ Len(result.value) = 2
    /\ result.value[1].rank = 1
    /\ result.value[2].rank = 2

\* C14: invalid inputs are rejected before any network call:
\* get_stop_high_stocks raises ValidationError when market is not in
\* VALID_MARKETS, term is not in VALID_TERMS or page is not an integer >= 1,
\* and get_multiple_pages raises ValidationError when max_pages is given and
\* is not an integer >= 1; no HTTP request is issued and performance_stats
\* is left as it was.
C14_InvalidInputsRejectedBeforeNetwork ==
    /\ (/\ op = "get_stop_high_stocks"
        /\ pc = "done"
        /\ \/ market \notin {"all", "tokyo", "osaka", "nagoya", "sapporo", "fukuoka"}
           \/ term \notin {"daily", "weekly", "monthly"}
           \/ input.page.type # "int"
           \/ input.page.v < 1)
       => /\ result.raised
          /\ result.exc.type = "ValidationError"
          /\ served = <<>>
          /\ calls = <<>>
          /\ performance_stats = InitialStats
    /\ (/\ op = "get_multiple_pages"
        /\ input.max_pages # PyNone
        /\ input.max_pages.type # "int" \/ input.max_pages.v < 1)
       => /\ pc = "done"
          /\ result.raised
          /\ result.exc.type = "ValidationError"
          /\ served = <<>>
          /\ performance_stats = InitialStats

\* A call with a valid market and term and page 0.
C14_Witness ==
    /\ op = "get_stop_high_stocks"
    /\ pc = "done"
    /\ market = "all"
    /\ term = "daily"
    /\ input.page = PyInt(0)
    /\ result.raised
    /\ result.exc.type = "ValidationError"
    /\ served = <<>>

\* A finished call of one of the three row parsers, and the row it was
\* given.
IsRowOp == pc = "done" /\ op \in {"_parse_table_row", "_parse_stock_row", "parse_stock_data"}

RowHref ==
    IF Len(input.row) >= 2 /\ input.row[2].link.href.has THEN input.row[2].link.href.v
    ELSE <<>>

\* A code without its trailing market suffix ".T".
StripSuffix(code) ==
    IF Len(code) >= 2 /\ code[Len(code) - 1] = "." /\ code[Len(code)] = "T"
    THEN SubSeq(code, 1, Len(code) - 2) ELSE code

\* The codes the ordered fallback allows for a row: the code= value; else
\* the /detail/ or /quote/ segment; else the first four digits of the stock
\* cell's text; else the placeholder of the row's position.
FallbackCodes ==
    LET query == search_after(RowHref, "code=", HasAmp)
        detail == search_after(RowHref, "/detail/", HasSlashOrQuery)
        quote == search_after(RowHref, "/quote/", HasSlashOrQuery)
        digits == search_four_digits(get_text(input.row[2]))
    IN  IF query.found THEN {query.group1}
        ELSE IF detail.found \/ quote.found
        THEN {m.group1 : m \in {n \in {detail, quote} : n.found}}
        ELSE IF digits.found THEN {digits.group1}
        ELSE {<<"UNK">> \o DecStr(input.row_index), <<"UNKNOWN_">> \o DecStr(input.row_index)}

\* C15: in every scraper variant the stock code of a record comes from the
\* first source that gives one, in the order code= value, /detail/ or
\* /quote/ segment, four digits of the cell text, placeholder (the market
\* suffix, which C16 is about, is left out of the comparison).
C15_CodeFallbackOrder ==
    IsRowOp =>
      \A r \in Emitted :
        RemoveDotT(r.stock_code) \in {RemoveDotT(code) : code \in FallbackCodes}

\* The text matched by the query or path pattern of the variant called.
VariantMatch ==
    LET query == search_after(RowHref, "code=", HasAmp)
    IN  IF query.found THEN query
        ELSE search_after(RowHref,
                          IF op = "parse_stock_data" THEN "/detail/" ELSE "/quote/",
                          HasSlashOrQuery)

\* C16: when the code is found through the query or path match, a trailing
\* market suffix ".T" is stripped and nothing else of the match is altered,
\* in every scraper variant.
C16_TrailingSuffixStripped ==
    (IsRowOp /\ VariantMatch.found) =>
      \A r \in Emitted : r.stock_code = StripSuffix(VariantMatch.group1)

\* A row with at least 3 cells and an anchor in its second cell.
HasCellsAndAnchor(row) == Len(row) >= 3 /\ row[2].link.has

C18_RowWithoutPriceCellsParsed ==
    (/\ op = "_parse_stock_row"
     /\ pc = "done"
     /\ Len(input.row) = 2
     /\ get_text(input.row[1]) \in {<<"1">>, <<"2", ".">>}
     /\ input.row[2].link.has)
    => /\ ~result.raised
       /\ result.value # None
       /\ result.value.stock_code = stop_low_extract_stock_code(RowHref, input.row[2],
                                                                input.row_index)

RECURSIVE StripTrailingPeriods(_)
\* The text without the periods at its end.
StripTrailingPeriods(s) ==
    IF s # <<>> /\ s[Len(s)] = "." THEN StripTrailingPeriods(SubSeq(s, 1, Len(s) - 1))
    ELSE s

\* C19: the rank of an HTML row is parsed from its first cell by stripping
\* trailing periods only: a row whose stripped rank text is not all digits
\* (such as 1.5) is skipped, and an accepted row's rank is the integer the
\* digits denote.
C19_RankStripsTrailingPeriodsOnly ==
    (/\ pc = "done"
     /\ op \in {"_parse_table_row", "_parse_stock_row"}
     /\ Len(input.row) >= 1)
    => LET stripped == StripTrailingPeriods(get_text(input.row[1])) IN
       /\ (stripped = <<>> \/ \E i \in 1..Len(stripped) : stripped[i] \notin Digits)
            => Emitted = {}
       /\ \A r \in Emitted : r.rank = DecVal(stripped)

\* C20: the rank of every emitted record is a positive integer, on the JSON
\* path and on the HTML path.
C20_RankIsPositive ==
    \A r \in Emitted : r.rank \in Nat /\ r.rank >= 1

\* A row satisfies every criterion supplied: market_cap within
\* [min_market_cap, max_market_cap], sector among sectors; a key that is
\* not supplied imposes nothing.
SatisfiesCriteria(r, criteria) ==
    /\ "min_market_cap" \in DOMAIN criteria =>
         r.market_cap.t = "num" /\ r.market_cap.v >= criteria["min_market_cap"]
    /\ "max_market_cap" \in DOMAIN criteria =>
         r.market_cap.t = "num" /\ r.market_cap.v <= criteria["max_market_cap"]
    /\ "sectors" \in DOMAIN criteria => r.sector \in criteria["sectors"]

\* C21: filtering by market capitalisation bounds and sectors returns
\* exactly the rows that satisfy all the supplied criteria, in their
\* original order; empty criteria return every row.
C21_FilterKeepsExactlyMatchingRows ==
    (/\ pc = "done"
     /\ op \in {"filter_stocks", "filter_recovery_candidates"}
     /\ DOMAIN input.criteria \subseteq {"min_market_cap", "max_market_cap", "sectors"})
    => result = Return(SelectSeq(input.df,
                                 LAMBDA r : SatisfiesCriteria(r, input.criteria)))


\* An input of the score is missing: the key is absent, or its value is
\* None, 'N/A' or nan.
Missing(stock_info, k) ==
    k \notin DOMAIN stock_info \/ stock_info[k].t # "num"

\* What a term contributes by the claim: nothing when one of its inputs
\* is missing, and otherwise what the term adds on its own.
TermContribution(stock_info, keys, t) ==
    IF \E k \in keys : Missing(stock_info, k) THEN 0 ELSE t.add

ExpectedScore(stock_info) ==
    50 + TermContribution(stock_info, {"recovery_from_low_pct"}, recovery_term(stock_info))
       + TermContribution(stock_info, {"pb_ratio"}, pb_term(stock_info))
       + TermContribution(stock_info, {"pe_ratio"}, pe_term(stock_info))
       + TermContribution(stock_info, {"dividend_yield"}, dividend_term(stock_info))
       + TermContribution(stock_info, {"current_price", "sma_20", "sma_50"}, trend_term(stock_info))
       + TermContribution(stock_info, {"volatility_pct"}, volatility_term(stock_info))
       + TermContribution(stock_info, {"low_decline_pct"}, decline_term(stock_info))

\* C22: calculate_recovery_score returns a number in [0, 100], and a
\* missing input makes its own term contribute zero while every other term
\* contributes as it would otherwise.
C22_MissingInputOnlyDropsItsTerm ==
    (pc = "done" /\ op = "calculate_recovery_score")
    => /\ ~result.raised
       /\ result.value \in 0..100
       /\ result.value = clamp_score(ExpectedScore(input.stock_info))


\* C23: the ratio formulas never raise on a zero denominator and yield nan
\* there, for ytd_high_ratio and for the distance from the low alike; for
\* a non-zero denominator the result is within 0.01 of num / den * 100.
C23_ZeroDenominatorYieldsNaN ==
    (pc = "done" /\ op \in {"calculate_ytd_high_ratio", "recovery_from_low"})
    => /\ ~result.raised
       /\ IF input.den = 0 THEN result.value = NaN
          ELSE /\ result.value.t = "num"
               /\ result.value.v * input.den - input.num * 10000 < input.den
               /\ input.num * 10000 - result.value.v * input.den < input.den


\* C24: StopLowScraper._scrape_page never propagates a failure of the
\* fetch, whatever the exception: it returns the empty list.
C24_ScrapePageNeverPropagates ==
    (pc = "done" /\ op = "_scrape_page" /\ input.fetch.raised)
    => result = Return(<<>>)


\* C25: the page loops of get_ytd_high_stocks and get_ytd_low_stocks stop
\* the first time a page yields zero records or fails: no page is
\* requested after such a page.
C25_AnalyzerLoopStopsEarly ==
    op \in {"get_ytd_high_stocks", "get_ytd_low_stocks"}
    => \A k \in 1..Len(served) :
          (yields[k].raised \/ yields[k].value = <<>>) => k = Len(served)


\* C26: after any sequence of recorded requests requests_made =
\* successful_requests + failed_requests, and get_performance_stats
\* reports success_rate = successful_requests / requests_made (0.0, with
\* average_request_time 0.0, when nothing was recorded) and leaves the
\* stored statistics as they were.
C26_PerformanceStatsConsistent ==
    /\ performance_stats.requests_made =
          performance_stats.successful_requests + performance_stats.failed_requests
    /\ (pc = "done" /\ op = "get_performance_stats") =>
          /\ performance_stats = input.stats
          /\ IF input.stats.requests_made > 0
             THEN result.value.success_rate.num * input.stats.requests_made =
                     input.stats.successful_requests * result.value.success_rate.den
             ELSE /\ result.value.success_rate = Ratio(0, 1)
                  /\ result.value.average_request_time = Ratio(0, 1)

\* get_performance_stats was called after requests of both outcomes were
\* recorded.
C26_Witness ==
    /\ pc = "done" /\ op = "get_performance_stats"
    /\ input.stats.successful_requests > 0
    /\ input.stats.failed_requests > 0
    /\ result.value.success_rate = Ratio(input.stats.successful_requests, input.stats.requests_made)


\* The HTML extraction was called on its own and has returned.
IsHtmlOp == pc = "done" /\ op \in {"_extract_from_html", "_parse_stock_data"}

\* The priority list of the scraper, and the positions in it of the
\* selectors that select more than one row of the document.
SelectorList == IF op = "_extract_from_html" THEN StopHighSelectors ELSE StopLowSelectors

UsableSelectors ==
    {n \in 1..Len(SelectorList) : Len(select(input.doc, SelectorList[n])) > 1}

\* The rows of the first usable selector.
ChosenRows ==
    select(input.doc, SelectorList[CHOOSE a \in UsableSelectors :
                                     \A b \in UsableSelectors : a <= b])

\* What the scraper's row parser makes of a row: a record, or None for a
\* row it skips.
RowRecord(row, i) ==
    CASE op = "_extract_from_html" -> parse_table_row(row, i)
      [] op = "_parse_stock_data" -> stop_low_row(row, i)
      [] OTHER -> IF simple_parse_row(row, i).raised THEN None
                  ELSE simple_parse_row(row, i).value

\* C27: on the HTML path the rows are those of the first selector of the
\* priority list that selects more than one row; the first of them is a
\* header and gives no record whatever it holds, so the records are those
\* of the second row onwards; without such a selector the result is empty.
C27_FirstUsableSelectorHeaderSkipped ==
    IsHtmlOp =>
       /\ ~result.raised
       /\ IF UsableSelectors = {} THEN result.value = <<>>
          ELSE result.value =
                 SelectSeq([i \in 1..(Len(ChosenRows) - 1) |-> RowRecord(ChosenRows[i + 1], i)],
                           LAMBDA r : r # None)

\* A selector of higher priority selects one row only, and the first row
\* of the chosen selector would parse as a record: the records start with
\* the second row.
C27_Witness ==
    /\ IsHtmlOp
    /\ UsableSelectors # {}
    /\ 1 \notin UsableSelectors
    /\ select(input.doc, SelectorList[1]) # <<>>
    /\ RowRecord(ChosenRows[1], 1) # None
    /\ Len(result.value) = Len(ChosenRows) - 1


\* Parsing the row raises: its rank cell passes the isdigit test and int()
\* rejects it.
RaisesOnParse(row) ==
    /\ Len(row) >= 3
    /\ isdigit(RemoveAtom(get_text(row[1]), "."))
    /\ int(RemoveAtom(get_text(row[1]), ".")).raised

\* The data rows of the page, by position after the header.
DataRows == [i \in 1..(Len(ChosenRows) - 1) |-> ChosenRows[i + 1]]

\* C28: an exception raised while parsing one row is caught and only that
\* row is skipped: the extraction does not raise, and every other row that
\* parses is emitted, in the original order.
C28_RowErrorSkipsOnlyThatRow ==
    (/\ pc = "done"
     /\ op \in {"_extract_from_html", "_parse_stock_data", "get_stocks_from_html"}
     /\ UsableSelectors # {})
    => /\ ~result.raised
       /\ result.value =
             SelectSeq([i \in 1..Len(DataRows) |->
                          IF RaisesOnParse(DataRows[i]) THEN None
                          ELSE RowRecord(DataRows[i], i)],
                       LAMBDA r : r # None)

\* A row that raises stands between two rows that parse, and both are
\* emitted.
C28_Witness ==
    /\ pc = "done"
    /\ op \in {"_extract_from_html", "_parse_stock_data", "get_stocks_from_html"}
    /\ UsableSelectors # {}
    /\ \E i, j, k \in 1..Len(DataRows) :
          /\ i < j /\ j < k
          /\ RaisesOnParse(DataRows[j])
          /\ RowRecord(DataRows[i], i) # None
          /\ RowRecord(DataRows[k], k) # None
    /\ Len(result.value) = 2
    /\ result.value[1].rank < result.value[2].rank


\* The detailed analysis has returned; how many records it looks at.
IsAnalysis == pc = "done" /\ op \in {"analyze_ytd_performance", "analyze_recovery_potential"}

AnalysisLimit == IF op = "analyze_ytd_performance" THEN 20 ELSE 25

IdentifyingFields == {"rank", "stock_code", "stock_name", "market"}

\* C29: the detailed analysis outputs one row per input record among the
\* first 20 (analyze_ytd_performance) or 25 (analyze_recovery_potential),
\* in input order; a row keeps the record's rank, stock_code, stock_name
\* and market, with derived fields attached when the lookup succeeded and
\* as the record itself when it failed.
C29_AnalysisKeepsIdentifyingFields ==
    IsAnalysis =>
       /\ ~result.raised
       /\ Len(result.value) = IF Len(input.stocks) < AnalysisLimit THEN Len(input.stocks)
                              ELSE AnalysisLimit
       /\ \A i \in 1..Len(result.value) :
             /\ \A k \in IdentifyingFields : result.value[i][k] = input.stocks[i][k]
             /\ IF input.stocks[i].stock_code \in input.failed
                THEN result.value[i] = input.stocks[i]
                ELSE "current_price" \in DOMAIN result.value[i]

\* More records than the limit, with lookups that fail and lookups that
\* succeed among the first ones.
C29_Witness ==
    /\ IsAnalysis
    /\ Len(input.stocks) > AnalysisLimit
    /\ Len(result.value) = AnalysisLimit
    /\ \E i, j \in 1..Len(result.value) :
          /\ i < j
          /\ result.value[i] = input.stocks[i]
          /\ "current_price" \in DOMAIN result.value[j]


\* C30: a call of get_stop_high_stocks that passes validation records
\* exactly one request, whatever its outcome: requests_made grows by 1,
\* exactly one of successful_requests / failed_requests grows by 1, and
\* requests_made is the number of HTTP requests issued.
C30_OneRecordPerRequest ==
    (pc = "done" /\ op = "get_stop_high_stocks"
     /\ ~validate_inputs(market, term, input.page).raised)
    => /\ performance_stats.requests_made = 1
       /\ performance_stats.requests_made = Len(served)
       /\ performance_stats.successful_requests + performance_stats.failed_requests = 1

====
